---- MODULE Spec2Model ----
(***************************************************************************)
(* Model of the natural-language-to-chart backend: the /api/query-stream   *)
(* pipeline (table selection, schema, prompt refinement, chart/column      *)
(* analysis, sampling, SQL synthesis) and the retry controller             *)
(* executeQueryWithRetry with its synthesizer, executor and verifier.      *)
(*                                                                         *)
(* The LLM and the store are the environment: every call to them picks one *)
(* of their possible outcomes.  An LLM answer is a text (a short sequence  *)
(* of tokens) from which each component extracts the substring between the *)
(* first "{" and the last "}" and parses it; a store call returns rows or  *)
(* raises.  Thai phrases of the source are written in ASCII transliteration*)
(* with the prefix "th_".                                                  *)
(***************************************************************************)
EXTENDS Integers, Sequences, FiniteSets, TLC

VARIABLES
  pc,                \* position of the running request / controller / parse harness
  caller,            \* who runs the retry controller: "handler" or "direct"
  stream,            \* notifications written with stream.writeSSE, in order
  userQuery,         \* body.query
  availableTables,   \* result of getAvailableTables
  bestTable,         \* result of detectBestTable
  availableColumns,  \* result of getAvailableColumns
  promptImprovement, \* result of improveUserPrompt
  columnAnalysis,    \* the ColumnAnalysis of the request
  analysisPath,      \* "none", "fast" or "slow"
  sampleData,        \* result of getSampleData
  result,            \* handler: SQL synthesis made before the controller runs
  originalPrompt,    \* controller parameter
  maxRetries,        \* controller parameter
  attempt,           \* controller local
  lastResult,        \* controller local
  lastError,         \* controller local
  currentSqlData,    \* controller local
  queryResults,      \* controller local: what executeQuery returned in this attempt
  retryOutcome,      \* value returned by executeQueryWithRetry
  payload,           \* the `result` notification's payload
  calls,             \* number of calls made to each collaborator
  log,               \* per controller attempt, what happened in it
  harness,           \* parse harness: component, LLM answer, value returned
  faults             \* request: which of the first three stages met an unreachable
                     \* store or LLM

vars == <<pc, caller, stream, userQuery, availableTables, bestTable, availableColumns,
          promptImprovement, columnAnalysis, analysisPath, sampleData, result,
          originalPrompt, maxRetries, attempt, lastResult, lastError, currentSqlData,
          queryResults, retryOutcome, payload, calls, log, harness, faults>>

----------------------------------------------------------------------------
\* Bounds of the model.

\* longest LLM answer text, in tokens
MaxTextLen == 4
\* largest retry budget given to the controller when it is run directly
MaxRetriesBound == 2
\* no collaborator is called more often than this in one run
CallCap == 8

----------------------------------------------------------------------------
\* JavaScript values.

\* `undefined` where a string is expected
Undefined == "undefined"
\* `null` where a string is expected
Null == "null"
\* `undefined` / `null` where a sequence or record is expected
UndefinedSeq == <<"undefined">>
NullSeq == <<"null">>

\* The value of an object's field, or `undefined`
Has(obj, f) == f \in obj.has

----------------------------------------------------------------------------
\* LLM answers: text, extraction of the JSON object, parsing.

Tokens == {"{", "}", "w", "f"}

Texts == UNION {[1..n -> Tokens] : n \in 0..MaxTextLen}

\* contentString.match(/\{[\s\S]*\}/): the leftmost "{" that has a "}" after it, up to
\* the last "}" of the text (the quantifier is greedy); NullSeq when there is no match.
RegexMatchNonGreedy(text) ==
  LET starts == {i \in 1..Len(text) : text[i] = "{" /\ \E j \in (i+1)..Len(text) : text[j] = "}"}
  IN IF starts = {} THEN NullSeq
     ELSE LET s == CHOOSE i \in starts : \A k \in starts : i <= k
              e == CHOOSE j \in (s+1)..Len(text) :
                     text[j] = "}" /\ \A k \in (s+1)..Len(text) : text[k] = "}" => j <= k
          IN SubSeq(text, s, e)

RegexMatch(text) ==
  LET starts == {i \in 1..Len(text) : text[i] = "{" /\ \E j \in (i+1)..Len(text) : text[j] = "}"}
  IN IF starts = {} THEN NullSeq
     ELSE LET s == CHOOSE i \in starts : \A k \in starts : i <= k
              e == CHOOSE j \in (s+1)..Len(text) :
                     text[j] = "}" /\ \A k \in (s+1)..Len(text) : text[k] = "}" => k <= j
          IN SubSeq(text, s, e)

\* The JSON grammar over the tokens: "f" is a non-empty list of members with scalar
\* values, "f" followed by an object a list whose last member's value is that object,
\* "w" is prose.  Object ::= "{" "}" | "{" "f" "}" | "{" "f" Object "}".
RECURSIVE IsJsonObject(_)
IsJsonObject(s) ==
  /\ Len(s) >= 2
  /\ s[1] = "{"
  /\ s[Len(s)] = "}"
  /\ \/ Len(s) = 2
     \/ Len(s) = 3 /\ s[2] = "f"
     \/ Len(s) >= 5 /\ s[2] = "f" /\ IsJsonObject(SubSeq(s, 3, Len(s) - 1))

\* JSON.parse(s): throws on text that is no JSON value; the object otherwise, which
\* has the fields of `obj` when it has members and no field at all when it is "{}".
JsonParse(s, obj) ==
  IF ~IsJsonObject(s) THEN [threw |-> TRUE, value |-> [obj EXCEPT !.has = {}]]
  ELSE [threw |-> FALSE, value |-> IF Len(s) = 2 THEN [obj EXCEPT !.has = {}] ELSE obj]

----------------------------------------------------------------------------
\* Strings.  A query is a sequence of words; a word may be a whole phrase.
\* s.includes(sub) is decided by SubstringFacts, the pairs <<s, sub>> of the strings
\* of the model in which sub occurs as a proper substring.

SubstringFacts ==
  { <<"pie chart", "pie">>, <<"donut chart", "donut">>,
    <<"th_kraf_thaeng", "th_thaeng">>, <<"th_kraf_sen", "th_sen">>,
    <<"th_kan_khai", "th_khai">>, <<"th_thongdaeng", "th_thong">>,
    <<"th_nak_kila", "th_kila">>, <<"th_kham_sangsue", "th_sangsue">>,
    <<"olympic_medalists", "olympic">>, <<"olympic_medalists", "medal">>,
    <<"olympic_medalists", "medalists">>, <<"medalists", "medal">>,
    <<"sales_orders", "sales">>, <<"sales_orders", "sale">>, <<"sales_orders", "orders">>,
    <<"sales_orders", "order">>, <<"sales", "sale">>, <<"orders", "order">>,
    <<"olympic medals", "olympic">>, <<"olympic medals", "medal">>,
    <<"sales_orders report", "sales_orders">>, <<"sales_orders report", "sales">>,
    <<"sales_orders report", "sale">>, <<"sales_orders report", "orders">>,
    <<"sales_orders report", "order">>,
    <<"th_khomun_rian_olympic", "th_rian">>, <<"th_khomun_rian_olympic", "th_olympic">>,
    <<"country_code", "country">>, <<"country_code", "code">>,
    <<"country", "count">>, <<"country_code", "count">>, <<"medal_count", "count">>,
    <<"event_type", "type">>, <<"datetime", "date">>, <<"datetime", "time">>,
    <<"th_ngoenduean", "th_ngoen">>,
    <<"medal type (enum)", "enum">>, <<"medal type (enum)", "type">>,
    <<"Category field", "field">> }

StrIncludes(s, sub) == s = sub \/ <<s, sub>> \in SubstringFacts

\* String.prototype.toLowerCase on the words of the model
ToLowerCase(w) ==
  CASE w = "PIE CHART" -> "pie chart"
    [] w = "Bar Chart" -> "bar chart"
    [] w = "Olympic Medals" -> "olympic medals"
    [] OTHER -> w

\* query.includes(sub), query the lower-cased text of the words
QueryIncludes(query, sub) == \E i \in 1..Len(query) : StrIncludes(ToLowerCase(query[i]), sub)

\* Array.prototype.slice(0, n)
Slice(seq, n) == SubSeq(seq, 1, IF Len(seq) < n THEN Len(seq) ELSE n)

\* Array.prototype.map to one field
Names(cols) == [i \in 1..Len(cols) |-> cols[i].name]

Range(seq) == {seq[i] : i \in 1..Len(seq)}

----------------------------------------------------------------------------
\* Chart-type detection.

chartPatterns ==
  << [type |-> "bar",
      patterns |-> <<"bar chart", "th_kraf_thaeng", "th_phaenphum_thaeng", "th_thaeng",
                     "th_priapthiap">>],
     [type |-> "column",
      patterns |-> <<"column chart", "th_kraf_column", "th_phaenphum_column", "th_column">>],
     [type |-> "line",
      patterns |-> <<"line chart", "th_kraf_sen", "th_phaenphum_sen", "th_sen",
                     "th_kan_plianplaeng", "th_talot_wela", "th_tam_wela">>],
     [type |-> "pie",
      patterns |-> <<"pie chart", "th_kraf_wongklom", "th_phaenphum_wongklom", "th_satsuan",
                     "th_percent", "pie">>],
     [type |-> "donut",
      patterns |-> <<"donut chart", "th_kraf_donut", "th_phaenphum_donut", "donut">>],
     [type |-> "area",
      patterns |-> <<"area chart", "th_kraf_phuenthi", "th_phaenphum_phuenthi", "th_sasom">>],
     [type |-> "scatter",
      patterns |-> <<"scatter plot", "scatter chart", "th_kraf_krachai", "th_chut_krachai",
                     "th_khwam_samphan">>],
     [type |-> "histogram",
      patterns |-> <<"histogram", "th_kraf_chaekchaeng", "th_kan_krachai", "th_histogram">>] >>

ChartTypes == {chartPatterns[i].type : i \in 1..Len(chartPatterns)}

\* Whether some trigger phrase of the i-th chart type occurs in the query
PatternHit(query, i) ==
  \E k \in 1..Len(chartPatterns[i].patterns) : QueryIncludes(query, chartPatterns[i].patterns[k])

detectChartTypeFromQuery_LastWins(query) ==
  LET hits == {i \in 1..Len(chartPatterns) : PatternHit(query, i)}
  IN IF hits = {} THEN Null
     ELSE chartPatterns[CHOOSE i \in hits : \A k \in hits : k <= i].type

detectChartTypeFromQuery_MostPhrases(query) ==
  LET count(i) == Cardinality({k \in 1..Len(chartPatterns[i].patterns) :
                                 QueryIncludes(query, chartPatterns[i].patterns[k])})
      hits == {i \in 1..Len(chartPatterns) : count(i) > 0}
  IN IF hits = {} THEN Null
     ELSE chartPatterns[CHOOSE i \in hits :
                          \A k \in hits : count(k) < count(i) \/ (count(k) = count(i) /\ i <= k)].type

\* The first chart type, in declaration order, one of whose phrases occurs in the
\* lower-cased query; null when none does.
detectChartTypeFromQuery(query) ==
  LET hits == {i \in 1..Len(chartPatterns) : PatternHit(query, i)}
  IN IF hits = {} THEN Null
     ELSE chartPatterns[CHOOSE i \in hits : \A k \in hits : i <= k].type

----------------------------------------------------------------------------
\* The store: outcomes of its calls.

ErrorMessages == {"ER_PARSE_ERROR"}

\* A store call that raises
StoreRaise(msg) == [kind |-> "raise", error |-> msg, rows |-> <<>>]
\* A store call that returns rows
StoreRows(rows) == [kind |-> "rows", error |-> Null, rows |-> rows]

\* INFORMATION_SCHEMA.TABLES of the databases of the model
StoreTableLists ==
  { <<>>,
    << [table_name |-> "olympic_medalists", table_comment |-> ""],
       [table_name |-> "sales_orders", table_comment |-> "th_kan_khai"] >> }

\* INFORMATION_SCHEMA.COLUMNS of a table
StoreColumns(tableName) ==
  IF tableName = "olympic_medalists"
  THEN << [column_name |-> "year", data_type |-> "int", column_comment |-> ""],
          [column_name |-> "country", data_type |-> "varchar", column_comment |-> "Country name"],
          [column_name |-> "medal", data_type |-> "varchar",
           column_comment |-> "medal type (enum)"] >>
  ELSE << [column_name |-> "product", data_type |-> "varchar", column_comment |-> ""],
          [column_name |-> "amount", data_type |-> "decimal", column_comment |-> ""] >>

----------------------------------------------------------------------------
\* Table selection.

DefaultTable == [name |-> "olympic_medalists", comment |-> "th_khomun_rian_olympic"]

FallbackTable == [name |-> "olympic_medalists", comment |-> "Fallback table"]

getAvailableTables_Propagate(outcome) ==
  IF outcome.kind = "raise" THEN [raised |-> TRUE, error |-> outcome.error, value |-> <<>>]
  ELSE [raised |-> FALSE, error |-> Null,
        value |-> [i \in 1..Len(outcome.rows) |->
                     [name |-> outcome.rows[i].table_name,
                      comment |-> outcome.rows[i].table_comment]]]

\* getAvailableTables: the tables of the store, or the default table when it raises
getAvailableTables(outcome) ==
  [raised |-> FALSE, error |-> Null,
   value |->
     IF outcome.kind = "raise" THEN <<DefaultTable>>
     ELSE [i \in 1..Len(outcome.rows) |->
             [name |-> outcome.rows[i].table_name,
              comment |-> IF outcome.rows[i].table_comment = "" THEN "th_mai_mi_khamathibai"
                          ELSE outcome.rows[i].table_comment]]]

tableKeywords ==
  << [category |-> "olympic",
      keywords |-> <<"th_rian", "th_olympic", "th_kila", "th_nak_kila", "th_prathet",
                     "th_thong", "th_ngoen", "th_thongdaeng", "medal", "olympic", "sport",
                     "athlete", "country">>],
     [category |-> "sales",
      keywords |-> <<"th_khai", "th_raidai", "th_lukkha", "th_sinkha", "th_kan_khai", "sale",
                     "revenue", "customer", "product">>],
     [category |-> "employee",
      keywords |-> <<"th_phanakngan", "th_lukkha", "th_ngoenduean", "th_phanaek", "employee",
                     "salary", "department">>],
     [category |-> "order",
      keywords |-> <<"th_sangsue", "th_kham_sangsue", "th_order", "order", "purchase">>],
     [category |-> "user",
      keywords |-> <<"th_phuchai", "th_samachik", "user", "member", "account">>] >>

\* tableName.split('_')
SplitUnderscore(name) ==
  CASE name = "olympic_medalists" -> <<"olympic", "medalists">>
    [] name = "sales_orders" -> <<"sales", "orders">>
    [] OTHER -> <<name>>

RECURSIVE SumSeq(_)
SumSeq(seq) == IF seq = <<>> THEN 0 ELSE seq[1] + SumSeq(Tail(seq))

TableScore_FragmentOnce(query, table) ==
  LET tableName == ToLowerCase(table.name)
      tableComment == ToLowerCase(table.comment)
      keywordMatches(c) ==
        Len(SelectSeq(tableKeywords[c].keywords,
                      LAMBDA keyword :
                        /\ QueryIncludes(query, keyword)
                        /\ \/ StrIncludes(tableName, tableKeywords[c].category)
                           \/ StrIncludes(tableComment, keyword)))
      tableWords == SplitUnderscore(tableName)
  IN SumSeq([c \in 1..Len(tableKeywords) |-> keywordMatches(c) * 10])
     + (IF QueryIncludes(query, tableName) THEN 50 ELSE 0)
     + (IF \E j \in 1..Len(tableWords) : QueryIncludes(query, tableWords[j]) THEN 20 ELSE 0)

\* The score detectBestTable gives one table
TableScore(query, table) ==
  LET tableName == ToLowerCase(table.name)
      tableComment == ToLowerCase(table.comment)
      keywordMatches(c) ==
        Len(SelectSeq(tableKeywords[c].keywords,
                      LAMBDA keyword :
                        /\ QueryIncludes(query, keyword)
                        /\ \/ StrIncludes(tableName, tableKeywords[c].category)
                           \/ StrIncludes(tableComment, keyword)))
      tableWords == SplitUnderscore(tableName)
  IN SumSeq([c \in 1..Len(tableKeywords) |-> keywordMatches(c) * 10])
     + (IF QueryIncludes(query, tableName) THEN 50 ELSE 0)
     + 20 * Len(SelectSeq(tableWords, LAMBDA word : QueryIncludes(query, word)))

\* tableScores.sort((a, b) => b.score - a.score), a stable sort: its first element is
\* the earliest table of the highest score.
detectBestTable(query, tables) ==
  IF tables = <<>> THEN FallbackTable
  ELSE tables[CHOOSE i \in 1..Len(tables) :
                \A k \in 1..Len(tables) :
                   /\ TableScore(query, tables[k]) <= TableScore(query, tables[i])
                   /\ k < i => TableScore(query, tables[k]) < TableScore(query, tables[i])]

----------------------------------------------------------------------------
\* Schema introspection.

NumericTypes == {"int", "bigint", "decimal", "float", "double", "tinyint", "smallint", "mediumint"}
DateTypes == {"date", "datetime", "timestamp", "year"}
TextTypes == {"varchar", "text", "char", "longtext", "mediumtext", "tinytext"}

getSuggestedChartTypes(columnName, dataType, comment) ==
  LET name == ToLowerCase(columnName)
      type == ToLowerCase(dataType)
      desc == ToLowerCase(comment)
      timeBased ==
        IF \/ StrIncludes(name, "year") \/ StrIncludes(name, "date")
           \/ StrIncludes(name, "time") \/ StrIncludes(type, "date")
        THEN <<"line", "area">> ELSE <<>>
      categorical ==
        IF \/ StrIncludes(name, "country") \/ StrIncludes(name, "category")
           \/ StrIncludes(name, "type") \/ StrIncludes(name, "code")
        THEN <<"bar", "column", "pie", "donut">> ELSE <<>>
      numeric ==
        IF type \in {"int", "bigint", "decimal", "float", "double"}
        THEN <<"histogram", "scatter">> ELSE <<>>
      limitedText ==
        IF /\ StrIncludes(type, "varchar")
           /\ comment # ""
           /\ \/ StrIncludes(desc, "enum") \/ StrIncludes(desc, "choice")
              \/ StrIncludes(desc, "type")
        THEN <<"pie", "donut", "bar">> ELSE <<>>
      suggestions == timeBased \o categorical \o numeric \o limitedText
  IN IF Len(suggestions) > 0 THEN suggestions ELSE <<"bar", "column">>

\* The descriptor analyzeTableStructure derives from one metadata row
ColumnDescriptor(row) ==
  LET isNumeric == ToLowerCase(row.data_type) \in NumericTypes
      isDate == ToLowerCase(row.data_type) \in DateTypes
      isText == ToLowerCase(row.data_type) \in TextTypes
  IN [name |-> row.column_name,
      type |-> row.data_type,
      comment |-> row.column_comment,
      isNumeric |-> isNumeric,
      isDate |-> isDate,
      isText |-> isText,
      canBeGrouped |-> \/ isText \/ isDate
                       \/ StrIncludes(row.column_name, "code")
                       \/ StrIncludes(row.column_name, "category"),
      canBeAggregated |-> isNumeric,
      suitableForFilter |-> TRUE,
      suggestedChartTypes |->
        getSuggestedChartTypes(row.column_name, row.data_type, row.column_comment)]

\* analyzeTableStructure: the descriptors, or [] when the store raises
analyzeTableStructure(outcome) ==
  IF outcome.kind = "raise" THEN <<>>
  ELSE [i \in 1..Len(outcome.rows) |-> ColumnDescriptor(outcome.rows[i])]

\* The generic descriptors getAvailableColumns falls back to
GenericFallbackColumns ==
  << [name |-> "id", type |-> "int", comment |-> "Primary key identifier",
      isNumeric |-> TRUE, isDate |-> FALSE, isText |-> FALSE, canBeGrouped |-> FALSE,
      canBeAggregated |-> FALSE, suitableForFilter |-> TRUE,
      suggestedChartTypes |-> <<"scatter">>],
     [name |-> "name", type |-> "varchar", comment |-> "Name field",
      isNumeric |-> FALSE, isDate |-> FALSE, isText |-> TRUE, canBeGrouped |-> TRUE,
      canBeAggregated |-> FALSE, suitableForFilter |-> TRUE,
      suggestedChartTypes |-> <<"bar", "column", "pie">>],
     [name |-> "category", type |-> "varchar", comment |-> "Category field",
      isNumeric |-> FALSE, isDate |-> FALSE, isText |-> TRUE, canBeGrouped |-> TRUE,
      canBeAggregated |-> FALSE, suitableForFilter |-> TRUE,
      suggestedChartTypes |-> <<"pie", "donut", "bar">>],
     [name |-> "value", type |-> "int", comment |-> "Numeric value field",
      isNumeric |-> TRUE, isDate |-> FALSE, isText |-> FALSE, canBeGrouped |-> FALSE,
      canBeAggregated |-> TRUE, suitableForFilter |-> TRUE,
      suggestedChartTypes |-> <<"histogram", "scatter">>],
     [name |-> "created_at", type |-> "datetime", comment |-> "Creation timestamp",
      isNumeric |-> FALSE, isDate |-> TRUE, isText |-> FALSE, canBeGrouped |-> TRUE,
      canBeAggregated |-> FALSE, suitableForFilter |-> TRUE,
      suggestedChartTypes |-> <<"line", "area">>] >>

getAvailableColumns(outcome) ==
  LET dynamicColumns == analyzeTableStructure(outcome)
  IN [raised |-> FALSE, error |-> Null,
      value |-> IF Len(dynamicColumns) > 0 THEN dynamicColumns ELSE GenericFallbackColumns]

----------------------------------------------------------------------------
\* The LLM: outcomes of model.invoke(prompt).

LlmRaise == [kind |-> "raise", error |-> "LLM_UNAVAILABLE"]

\* An answer with the given text; `obj` is the object its JSON text denotes
LlmText(text, obj) == [kind |-> "text", error |-> Null, text |-> text, obj |-> obj]

\* Outcome of the try block shared by the components: the parsed object, or none when
\* the call raised, the text has no brace-delimited part, or JSON.parse threw
TryParse_NoCatch(resp) ==
  IF resp.kind = "raise" THEN [ok |-> FALSE, threw |-> FALSE, obj |-> [has |-> {}]]
  ELSE LET jsonMatch == RegexMatch(resp.text)
       IN IF jsonMatch = NullSeq THEN [ok |-> FALSE, threw |-> FALSE, obj |-> [has |-> {}]]
          ELSE LET parsed == JsonParse(jsonMatch, resp.obj)
               IN [ok |-> ~parsed.threw, threw |-> parsed.threw, obj |-> parsed.value]

TryParse(resp) ==
  IF resp.kind = "raise" THEN [ok |-> FALSE, threw |-> FALSE, obj |-> [has |-> {}]]
  ELSE LET jsonMatch == RegexMatch(resp.text)
       IN IF jsonMatch = NullSeq THEN [ok |-> FALSE, threw |-> FALSE, obj |-> [has |-> {}]]
          ELSE LET parsed == JsonParse(jsonMatch, resp.obj)
               IN [ok |-> ~parsed.threw, threw |-> FALSE, obj |-> parsed.value]

----------------------------------------------------------------------------
\* Prompt Refiner.

improveUserPromptFallback(prompt) ==
  [improvedPrompt |-> prompt,
   improvementsMade |-> <<"th_cannot_improve">>,
   reasoning |-> "AI improvement failed",
   wasImproved |-> FALSE]

improveUserPrompt(resp, prompt) ==
  LET t == TryParse(resp)
      parsed == t.obj
      improved == IF Has(parsed, "improved_prompt") THEN parsed.improved_prompt
                  ELSE UndefinedSeq
  IN IF t.threw THEN [raised |-> TRUE, error |-> "SyntaxError", value |-> improveUserPromptFallback(prompt)]
     ELSE IF ~t.ok THEN [raised |-> FALSE, error |-> Null, value |-> improveUserPromptFallback(prompt)]
     ELSE [raised |-> FALSE, error |-> Null,
           value |-> [improvedPrompt |-> IF improved \in {UndefinedSeq, <<>>} THEN prompt
                                         ELSE improved,
                      improvementsMade |-> <<>>,
                      reasoning |-> IF Has(parsed, "reasoning") THEN parsed.reasoning ELSE "",
                      wasImproved |-> improved # prompt]]

----------------------------------------------------------------------------
\* SQL Synthesizer.

\* The statement of the fallback: SELECT c, COUNT(*) as count FROM t GROUP BY c
\* ORDER BY count DESC LIMIT 15
FallbackSql(primaryColumn, tableName) ==
  <<"SELECT", primaryColumn, ", COUNT(*) as count", "FROM", tableName,
    "GROUP BY", primaryColumn, "ORDER BY count DESC", "LIMIT 15">>

generateSQLFallback(analysis, tableName) ==
  LET fallbackColumns == IF analysis.required_columns = UndefinedSeq
                         THEN <<"country", "medal">> ELSE analysis.required_columns
      primaryColumn == IF fallbackColumns = <<>> THEN "country" ELSE fallbackColumns[1]
  IN [sqlQuery |-> FallbackSql(primaryColumn, tableName),
      explanation |-> "Fallback query",
      queryReasoning |-> "fallback: AI generation failed",
      columnsUsed |-> <<primaryColumn>>,
      filtersApplied |-> <<"th_mai_mi_filter">>]

\* generateSQLQueryWithAI.  Building the prompt reads columnAnalysis.required_columns
\* .join, which throws a TypeError, outside the try block and before the LLM is
\* called, when required_columns is undefined.
generateSQLQueryWithAI(resp, analysis, tableName) ==
  LET t == TryParse(resp)
      parsed == t.obj
  IN IF analysis.required_columns = UndefinedSeq
     THEN [raised |-> TRUE, error |-> "TypeError", llmCalled |-> FALSE,
           value |-> generateSQLFallback(analysis, tableName)]
     ELSE IF t.threw
     THEN [raised |-> TRUE, error |-> "SyntaxError", llmCalled |-> TRUE,
           value |-> generateSQLFallback(analysis, tableName)]
     ELSE IF ~t.ok
     THEN [raised |-> FALSE, error |-> Null, llmCalled |-> TRUE,
           value |-> generateSQLFallback(analysis, tableName)]
     ELSE [raised |-> FALSE, error |-> Null, llmCalled |-> TRUE,
           value |-> [sqlQuery |-> IF Has(parsed, "sql_query") THEN parsed.sql_query
                                   ELSE UndefinedSeq,
                      explanation |-> IF Has(parsed, "explanation") THEN parsed.explanation
                                      ELSE Undefined,
                      queryReasoning |-> "",
                      columnsUsed |-> IF Has(parsed, "columns_used") THEN parsed.columns_used
                                      ELSE <<>>,
                      filtersApplied |-> <<>>]]

----------------------------------------------------------------------------
\* Query Executor.

\* A store call whose connection is refused
StoreConnectRaise(msg) == [kind |-> "connect_raise", error |-> msg, rows |-> <<>>]
\* A store call whose statement returns rows and whose connection.end() rejects
StoreEndRaise(rows, msg) == [kind |-> "end_raise", error |-> msg, rows |-> rows]

executeQuery_LeakOnError(sqlQuery, outcome) ==
  LET connection == outcome.kind # "connect_raise"
      failed == ~connection \/ sqlQuery = UndefinedSeq \/ outcome.kind = "raise"
  IN [raised |-> failed \/ outcome.kind = "end_raise", error |-> outcome.error,
      isArray |-> outcome.kind # "header",
      value |-> IF failed \/ outcome.kind = "end_raise" THEN <<>> ELSE outcome.rows,
      opened |-> connection, ended |-> connection /\ ~failed]

\* executeQuery: the rows, or the store's error re-thrown.  An undefined statement
\* is rejected by the store client.  A statement that is no SELECT yields a result
\* header, which is no array.  `opened` tells whether createConnection returned a
\* connection, `ended` whether the finally block called connection.end() on it; an
\* end() that rejects makes the call raise whatever the try block did.
executeQuery(sqlQuery, outcome) ==
  LET connection == outcome.kind # "connect_raise"
      ended == connection
  IN IF ~connection
     THEN [raised |-> TRUE, error |-> outcome.error, isArray |-> TRUE, value |-> <<>>,
           opened |-> FALSE, ended |-> ended]
     ELSE IF outcome.kind = "end_raise"
     THEN [raised |-> TRUE, error |-> outcome.error, isArray |-> TRUE, value |-> <<>>,
           opened |-> TRUE, ended |-> ended]
     ELSE IF sqlQuery = UndefinedSeq
     THEN [raised |-> TRUE, error |-> "ER_EMPTY_QUERY", isArray |-> TRUE, value |-> <<>>,
           opened |-> TRUE, ended |-> ended]
     ELSE IF outcome.kind = "raise"
     THEN [raised |-> TRUE, error |-> outcome.error, isArray |-> TRUE, value |-> <<>>,
           opened |-> TRUE, ended |-> ended]
     ELSE [raised |-> FALSE, error |-> Null, isArray |-> outcome.kind = "rows",
           value |-> outcome.rows, opened |-> TRUE, ended |-> ended]

----------------------------------------------------------------------------
\* Result Verifier.

\* confidence the verifier reports without the LLM when there are rows
FallbackConfidenceRows == 70
\* confidence the verifier reports without the LLM when there are none
FallbackConfidenceEmpty == 30

\* verifyFallback with a verdict that does not depend on the rows
verifyFallback_RowBlind(rows) ==
  [isValid |-> TRUE,
   confidenceScore |-> FallbackConfidenceRows,
   issuesFound |-> <<>>,
   suggestions |-> <<>>,
   shouldRetry |-> FALSE,
   improvedSql |-> NullSeq,
   reasoning |-> "basic check: AI verification failed"]

\* verifyFallback that never asks for a retry
verifyFallback_NoRetry(rows) ==
  [isValid |-> Len(rows) > 0,
   confidenceScore |-> IF Len(rows) > 0 THEN FallbackConfidenceRows
                       ELSE FallbackConfidenceEmpty,
   issuesFound |-> IF Len(rows) = 0 THEN <<"th_mai_phop_khomun">> ELSE <<>>,
   suggestions |-> IF Len(rows) = 0 THEN <<"th_long_prap_where">> ELSE <<>>,
   shouldRetry |-> FALSE,
   improvedSql |-> NullSeq,
   reasoning |-> "basic check: AI verification failed"]

verifyFallback(rows) ==
  [isValid |-> Len(rows) > 0,
   confidenceScore |-> IF Len(rows) > 0 THEN FallbackConfidenceRows
                       ELSE FallbackConfidenceEmpty,
   issuesFound |-> IF Len(rows) = 0 THEN <<"th_mai_phop_khomun">> ELSE <<>>,
   suggestions |-> IF Len(rows) = 0 THEN <<"th_long_prap_where">> ELSE <<>>,
   shouldRetry |-> Len(rows) = 0,
   improvedSql |-> NullSeq,
   reasoning |-> "basic check: AI verification failed"]

\* verifyQueryResultsWithAI.  Building the prompt calls queryResults.slice, which
\* throws a TypeError, outside the try block and before the LLM is called, when the
\* result is no array.
verifyQueryResultsWithAI(resp, rows, isArray) ==
  LET t == TryParse(resp)
      parsed == t.obj
  IN IF ~isArray
     THEN [raised |-> TRUE, error |-> "TypeError", llmCalled |-> FALSE,
           value |-> verifyFallback(rows)]
     ELSE IF t.threw
     THEN [raised |-> TRUE, error |-> "SyntaxError", llmCalled |-> TRUE,
           value |-> verifyFallback(rows)]
     ELSE IF ~t.ok
     THEN [raised |-> FALSE, error |-> Null, llmCalled |-> TRUE,
           value |-> verifyFallback(rows)]
     ELSE [raised |-> FALSE, error |-> Null, llmCalled |-> TRUE,
           value |->
             [isValid |-> Has(parsed, "is_valid") /\ parsed.is_valid,
              confidenceScore |-> IF Has(parsed, "confidence_score")
                                  THEN parsed.confidence_score ELSE 0,
              issuesFound |-> IF Has(parsed, "issues_found") THEN parsed.issues_found
                              ELSE <<>>,
              suggestions |-> IF Has(parsed, "suggestions") THEN parsed.suggestions ELSE <<>>,
              shouldRetry |-> Has(parsed, "should_retry") /\ parsed.should_retry,
              improvedSql |-> IF Has(parsed, "improved_sql") /\ parsed.improved_sql # <<>>
                              THEN parsed.improved_sql ELSE NullSeq,
              reasoning |-> IF Has(parsed, "reasoning") THEN parsed.reasoning ELSE ""]]

----------------------------------------------------------------------------
\* Chart/column analysis of the request handler.

RECURSIVE Flatten(_)
\* Array.prototype.flatMap over a sequence of sequences
Flatten(seqs) == IF seqs = <<>> THEN <<>> ELSE seqs[1] \o Flatten(Tail(seqs))

\* The ColumnAnalysis built without the LLM when the query names a chart type
fastPathAnalysis(detectedChartType, cols) ==
  LET relevantColumns == Slice(SelectSeq(cols, LAMBDA col : col.canBeGrouped), 2)
      primaryColumn == IF Len(relevantColumns) > 0 THEN relevantColumns[1].name ELSE "country"
      suggesting == SelectSeq(cols, LAMBDA col : detectedChartType \in Range(col.suggestedChartTypes))
      others == SelectSeq(Flatten([i \in 1..Len(suggesting) |-> suggesting[i].suggestedChartTypes]),
                          LAMBDA type : type # detectedChartType)
  IN [required_columns |-> Names(relevantColumns),
      chart_type |-> detectedChartType,
      alternative_charts |-> Slice(others, 2),
      data_aggregation |-> "count",
      x_axis |-> primaryColumn,
      y_axis |-> "count",
      analysis |-> "chart type named by the user"]

\* The ColumnAnalysis the slow path uses when the LLM's answer cannot be parsed
defaultAnalysis(cols) ==
  LET groupable == SelectSeq(cols, LAMBDA col : col.canBeGrouped)
      defaultGroupableColumns == Names(Slice(groupable, 2))
  IN [required_columns |-> IF Len(defaultGroupableColumns) > 0 THEN defaultGroupableColumns
                           ELSE <<"country", "medal">>,
      chart_type |-> "bar",
      alternative_charts |-> <<"column", "pie">>,
      data_aggregation |-> "count",
      x_axis |-> IF Len(groupable) > 0 THEN groupable[1].name ELSE "country",
      y_axis |-> "count",
      analysis |-> "default from column capabilities"]

\* The slow path: analysisModel.invoke is awaited outside the try block, so a failing
\* call raises; the try block covers the extraction and JSON.parse only.  The parsed
\* object is used as it is, its missing fields undefined.
slowPathAnalysis(resp, cols) ==
  LET t == TryParse(resp)
      parsed == t.obj
  IN IF resp.kind = "raise"
     THEN [raised |-> TRUE, error |-> resp.error, value |-> defaultAnalysis(cols)]
     ELSE IF t.threw
     THEN [raised |-> TRUE, error |-> "SyntaxError", value |-> defaultAnalysis(cols)]
     ELSE IF ~t.ok
     THEN [raised |-> FALSE, error |-> Null, value |-> defaultAnalysis(cols)]
     ELSE [raised |-> FALSE, error |-> Null,
           value |->
             [required_columns |-> IF Has(parsed, "required_columns")
                                   THEN parsed.required_columns ELSE UndefinedSeq,
              chart_type |-> IF Has(parsed, "chart_type") THEN parsed.chart_type
                             ELSE Undefined,
              alternative_charts |-> IF Has(parsed, "alternative_charts")
                                     THEN parsed.alternative_charts ELSE <<>>,
              data_aggregation |-> IF Has(parsed, "data_aggregation")
                                   THEN parsed.data_aggregation ELSE Undefined,
              x_axis |-> IF Has(parsed, "x_axis") THEN parsed.x_axis ELSE Undefined,
              y_axis |-> IF Has(parsed, "y_axis") THEN parsed.y_axis ELSE Undefined,
              analysis |-> IF Has(parsed, "analysis") THEN parsed.analysis ELSE Undefined]]

----------------------------------------------------------------------------
\* Sampling.

\* the number of sample rows the handler asks for
HandlerSampleLimit == 10

SafeLimit_NoClamp(limit) == limit

\* Math.max(1, Math.min(100, Math.floor(limit))), on integers
SafeLimit(limit) == IF limit < 1 THEN 1 ELSE IF limit > 100 THEN 100 ELSE limit

FallbackSample ==
  [sampleRecords |-> <<>>, categoricalColumns |-> <<"fallback">>, totalSampleCount |-> 0]

\* getSampleData: SELECT * ... LIMIT safeLimit, or the fallback sample when the store
\* raises.  (The distinct values, fetched in a try block of their own, are left out.)
getSampleData(cols, limit, outcome) ==
  IF outcome.kind # "rows" THEN FallbackSample
  ELSE LET sampleRows == Slice(outcome.rows, SafeLimit(limit))
           categoricalColumns ==
             Slice(SelectSeq(cols, LAMBDA col : /\ col.canBeGrouped
                                                /\ col.isText
                                                /\ ~StrIncludes(col.name, "id")), 5)
       IN [sampleRecords |-> sampleRows,
           categoricalColumns |-> Names(categoricalColumns),
           totalSampleCount |-> Len(sampleRows)]

----------------------------------------------------------------------------
\* Chart data.

ValueMarkers ==
  {"count", "value", "total", "sum", "amount", "number", "frequency", "medal_count"}

\* Whether keys.find accepts the i-th key of the row as the value key
IsValueKey(row, i) ==
  LET lowKey == ToLowerCase(row.keys[i])
  IN \/ \E m \in ValueMarkers : StrIncludes(lowKey, m)
     \/ lowKey = "y"
     \/ /\ row.vals[i].t = "number"
        /\ ~StrIncludes(lowKey, "year")
        /\ ~StrIncludes(lowKey, "id")

\* value.toString()
ToStr(v) == IF v.t = "number" THEN ToString(v.n) ELSE v.s

\* parseFloat(s), with 0 for NaN
ParseFloatOrZero(str) == CASE str = "7" -> 7 [] str = "300" -> 300 [] OTHER -> 0

\* The chart point parseQueryResultToChartData makes of one row
ChartPoint(row, index) ==
  LET n == Len(row.keys)
      hits == {i \in 1..n : IsValueKey(row, i)}
      valueIdx == IF hits = {} THEN n ELSE CHOOSE i \in hits : \A k \in hits : i <= k
      labelIdx == SelectSeq([i \in 1..n |-> i], LAMBDA i : row.keys[i] # row.keys[valueIdx])
      labelValue ==
        IF Len(labelIdx) = 1
        THEN IF ToStr(row.vals[labelIdx[1]]) = "" THEN <<"Unknown">>
             ELSE <<ToStr(row.vals[labelIdx[1]])>>
        ELSE IF Len(labelIdx) > 1
        THEN [k \in 1..Len(labelIdx) |-> ToStr(row.vals[labelIdx[k]])]
        ELSE <<"Item", ToString(index)>>
  IN [label |-> labelValue,
      value |-> IF n = 0 THEN 0
                ELSE IF row.vals[valueIdx].t = "number" THEN row.vals[valueIdx].n
                ELSE ParseFloatOrZero(row.vals[valueIdx].s),
      additional_info |-> row]

parseQueryResultToChartData(queryResult) ==
  [i \in 1..Len(queryResult) |-> ChartPoint(queryResult[i], i)]

\* The rows the handler charts when the controller reports a failure
MockRows ==
  << [keys |-> <<"label", "count">>, vals |-> <<[t |-> "string", n |-> 0, s |-> "USA"],
                                                [t |-> "number", n |-> 300, s |-> ""]>>],
     [keys |-> <<"label", "count">>, vals |-> <<[t |-> "string", n |-> 0, s |-> "China"],
                                                [t |-> "number", n |-> 250, s |-> ""]>>],
     [keys |-> <<"label", "count">>, vals |-> <<[t |-> "string", n |-> 0, s |-> "Japan"],
                                                [t |-> "number", n |-> 150, s |-> ""]>>],
     [keys |-> <<"label", "count">>,
      vals |-> <<[t |-> "string", n |-> 0, s |-> "Great Britain"],
                 [t |-> "number", n |-> 120, s |-> ""]>>],
     [keys |-> <<"label", "count">>, vals |-> <<[t |-> "string", n |-> 0, s |-> "Germany"],
                                                [t |-> "number", n |-> 100, s |-> ""]>>] >>

\* The chart formatter of packages/chart-config: format(chartType, rows) gives
\* {data, config, chartConfig}; pure, and it does not raise.
generateShadcnChartResponse(chartType, chartData) ==
  [data |-> chartData, config |-> chartType, chartConfig |-> chartType]

----------------------------------------------------------------------------
\* Notifications of the request handler.  `stage` names the pipeline stage the
\* message reports on.

Status(stage, progress) == [type |-> "status", stage |-> stage, progress |-> progress]

\* A `result` notification sent before the work is complete
ResultNote_Partial == [type |-> "result", stage |-> "completion", progress |-> 95]

ResultNote == [type |-> "result", stage |-> "completion", progress |-> 100]

DoneNote == [type |-> "done", stage |-> "done"]

ErrorNote(error) == [type |-> "error", stage |-> "error", error |-> error]

\* The catch block of the handler: the `error` notification, and the stream closes
HandlerCatch(error) ==
  /\ stream' = Append(stream, ErrorNote(error))
  /\ pc' = "h_closed"

----------------------------------------------------------------------------
\* Retry Controller: executeQueryWithRetry.

\* confidence from which a valid result is accepted
AcceptThreshold == 70
\* retry budget the request handler passes
HandlerMaxRetries == 2

\* currentSqlData = null
NullSqlData ==
  [sqlQuery |-> NullSeq, explanation |-> Null, queryReasoning |-> "",
   columnsUsed |-> <<>>, filtersApplied |-> <<>>]

\* The sqlData of the error result when no synthesis ever returned
PlaceholderSqlData ==
  [sqlQuery |-> <<"SELECT \"Error\" as message">>, explanation |-> "th_sql_error",
   queryReasoning |-> "", columnsUsed |-> <<>>, filtersApplied |-> <<>>]

\* The verification of the error result
ErrorVerification(error) ==
  [isValid |-> FALSE, confidenceScore |-> 0, issuesFound |-> <<"th_error", error>>,
   suggestions |-> <<"th_long_plian_khamtham">>, shouldRetry |-> FALSE,
   improvedSql |-> NullSeq, reasoning |-> "th_execute_failed_repeatedly"]

\* What the function returns when the loop ends without a return statement
UndefinedOutcome ==
  [defined |-> FALSE, success |-> FALSE, queryResults |-> <<>>, sqlData |-> NullSqlData,
   verification |-> ErrorVerification(Null), attempt |-> 0, maxRetries |-> 0,
   error |-> Null]

SynthesisPrompt_NoFeedback(prompt, n, budget, last) ==
  [base |-> prompt, retry |-> n, of |-> budget, issues |-> <<"th_phonlap_mai_mosom">>,
   suggestions |-> <<"th_mai_mi">>, improvedSql |-> NullSeq]

\* The synthesis prompt of an attempt: the original prompt, and from the second
\* attempt on the feedback of lastResult's verification
SynthesisPrompt(prompt, n, budget, last) ==
  IF n = 0
  THEN [base |-> prompt, retry |-> 0, of |-> budget, issues |-> <<>>, suggestions |-> <<>>,
        improvedSql |-> NullSeq]
  ELSE [base |-> prompt, retry |-> n, of |-> budget,
        issues |-> IF last # <<>> /\ last[1].verification.issuesFound # <<>>
                   THEN last[1].verification.issuesFound ELSE <<"th_phonlap_mai_mosom">>,
        suggestions |-> IF last # <<>> /\ last[1].verification.suggestions # <<>>
                        THEN last[1].verification.suggestions ELSE <<"th_mai_mi">>,
        improvedSql |-> IF last # <<>> THEN last[1].verification.improvedSql ELSE NullSeq]

NextAttempt_Stuck(n) == n

\* attempt++
NextAttempt(n) == n + 1

Acceptable_Strict(verification) ==
  verification.isValid /\ verification.confidenceScore > AcceptThreshold

\* verification.isValid && verification.confidenceScore >= 70
Acceptable(verification) ==
  verification.isValid /\ verification.confidenceScore >= AcceptThreshold

RetryAllowed_Always(verification, n, budget) == verification.shouldRetry

\* verification.shouldRetry && attempt < maxRetries
RetryAllowed(verification, n, budget) == verification.shouldRetry /\ n < budget

CatchRetries_Never(n, budget) == FALSE

\* in the catch block: attempt < maxRetries
CatchRetries(n, budget) == n < budget

ErrorResult_NoError(sqlData, error, n, budget) ==
  [defined |-> TRUE, success |-> FALSE, queryResults |-> <<>>,
   sqlData |-> IF sqlData = NullSqlData THEN PlaceholderSqlData ELSE sqlData,
   verification |-> ErrorVerification(error), attempt |-> n + 1, maxRetries |-> budget,
   error |-> Null]

ErrorResult_AlwaysPlaceholder(sqlData, error, n, budget) ==
  [defined |-> TRUE, success |-> FALSE, queryResults |-> <<>>,
   sqlData |-> PlaceholderSqlData,
   verification |-> ErrorVerification(error), attempt |-> n + 1, maxRetries |-> budget,
   error |-> error]

\* The catch block returning the result kept of an earlier verified attempt
ErrorResult_KeepVerified(sqlData, error, n, budget) ==
  IF lastResult # <<>> THEN lastResult[1]
  ELSE [defined |-> TRUE, success |-> FALSE, queryResults |-> <<>>,
        sqlData |-> IF sqlData = NullSqlData THEN PlaceholderSqlData ELSE sqlData,
        verification |-> ErrorVerification(error), attempt |-> n + 1, maxRetries |-> budget,
        error |-> error]

\* The result returned from the catch block when the budget is used up
ErrorResult(sqlData, error, n, budget) ==
  [defined |-> TRUE, success |-> FALSE, queryResults |-> <<>>,
   sqlData |-> IF sqlData = NullSqlData THEN PlaceholderSqlData ELSE sqlData,
   verification |-> ErrorVerification(error), attempt |-> n + 1, maxRetries |-> budget,
   error |-> error]

AttemptResult_AttemptIndex(rows, sqlData, verification, n, budget) ==
  [defined |-> TRUE, success |-> TRUE, queryResults |-> rows, sqlData |-> sqlData,
   verification |-> verification, attempt |-> n, maxRetries |-> budget,
   error |-> Null]

\* The result built after a verification
AttemptResult(rows, sqlData, verification, n, budget) ==
  [defined |-> TRUE, success |-> TRUE, queryResults |-> rows, sqlData |-> sqlData,
   verification |-> verification, attempt |-> n + 1, maxRetries |-> budget,
   error |-> Null]

\* Where control goes when executeQueryWithRetry returns
ReturnPc == IF caller = "direct" THEN "c_done" ELSE "h_outcome"

\* The collaborators' call counts, one of them raised by one
Called(what) == [calls EXCEPT ![what] = @ + 1]

\* No stage has met an unreachable store or LLM
NoFaults == [tables |-> FALSE, columns |-> FALSE, refine |-> FALSE]

\* verification = none yet
NullVerification ==
  [isValid |-> FALSE, confidenceScore |-> 0, issuesFound |-> <<>>, suggestions |-> <<>>,
   shouldRetry |-> FALSE, improvedSql |-> NullSeq, reasoning |-> "none"]

\* What the log keeps of the controller's run: the number of attempts ended, how
\* the last one ended ("synth_raise", "exec_raise", "verify_raise", "lowconf" for a
\* verification of confidence 40 that asks for a retry, "verified" for any other),
\* what it produced, and whether all attempts so far ended alike (profile)
LogAttempt(tag, rows, sqlData, verification, error) ==
  [ended |-> log.ended + 1,
   n |-> attempt,
   tag |-> tag,
   rows |-> rows,
   sqlData |-> sqlData,
   verification |-> verification,
   error |-> error,
   prompt |-> log.prompt,
   profile |-> IF log.ended = 0 \/ log.profile = tag THEN tag ELSE "mixed"]

NullLog ==
  [ended |-> 0, n |-> 0, tag |-> "none", rows |-> <<>>, sqlData |-> NullSqlData,
   verification |-> NullVerification, error |-> Null,
   prompt |-> SynthesisPrompt(<<>>, 0, 0, <<>>), profile |-> "none"]

\* The catch block of the loop
Catch(error) ==
  /\ lastError' = error
  /\ IF CatchRetries(attempt, maxRetries)
     THEN /\ attempt' = NextAttempt(attempt)
          /\ pc' = "c_synth"
          /\ retryOutcome' = retryOutcome
     ELSE /\ attempt' = attempt
          /\ pc' = ReturnPc
          /\ retryOutcome' = ErrorResult(currentSqlData', error, attempt, maxRetries)

----------------------------------------------------------------------------
\* Inputs and outcomes the environment chooses from.

Queries ==
  { <<"show">>, <<"show", "medal">>, <<"PIE CHART">>, <<"pie chart", "th_priapthiap">>,
    <<"th_khai", "th_sinkha">> }

\* The queries of the requests: one that names no chart type, one that names the pie
\* chart in upper case, one with a phrase of the pie and a phrase of the bar chart
HandlerQueries == { <<"show", "medal">>, <<"PIE CHART">>, <<"pie chart", "th_priapthiap">> }

\* Values of a row's fields: numbers and strings
Num(n) == [t |-> "number", n |-> n, s |-> ""]
Str(str) == [t |-> "string", n |-> 0, s |-> str]

DbRow == [keys |-> <<"country", "count">>, vals |-> <<Str("Thailand"), Num(3)>>]

StoreResultSets == { <<>>, <<DbRow>> }

\* Requests that run concurrently get the answers of a script chosen by their query,
\* so that a request meets the same store and LLM answers alone and beside another:
\* script 1 answers "show medal", script 2 "PIE CHART", script 3 any other query
ScriptId ==
  CASE userQuery = <<"show", "medal">> -> 1
    [] userQuery = <<"PIE CHART">> -> 2
    [] OTHER -> 3

\* The answers a call may get: any of `all`, or the script's answer
Scripted(all, pick) == IF caller = "concurrent" THEN {pick} ELSE all

\* What the store may answer a statement: it raises, it returns rows, or (to a
\* statement that is no SELECT) a result header
ExecOutcomesDirect ==
  {StoreRaise(m) : m \in ErrorMessages}
    \cup {StoreRows(r) : r \in StoreResultSets}
    \cup {[kind |-> "header", error |-> Null, rows |-> <<>>]}

\* Within a request: it raises, or it returns the rows of the table
ExecOutcomesHandler ==
  {StoreRaise(m) : m \in ErrorMessages} \cup {StoreRows(<<DbRow>>)}

ExecOutcomes ==
  IF caller = "direct" THEN ExecOutcomesDirect
  ELSE Scripted(ExecOutcomesHandler,
                IF ScriptId = 2 \/ (ScriptId = 3 /\ attempt = 0)
                THEN StoreRaise("ER_PARSE_ERROR") ELSE StoreRows(<<DbRow>>))

\* LLM answer texts used where the text is not the subject: prose, prose in braces,
\* an object inside prose, the empty object
SampleTexts == { <<"w">>, <<"{", "w", "}">>, <<"w", "{", "f", "}">>, <<"{", "}">> }

LlmSql == <<"LLM_SQL">>
LlmImprovedSql == <<"LLM_IMPROVED_SQL">>

SynthObjs ==
  { [has |-> {"sql_query", "explanation", "columns_used"}, sql_query |-> LlmSql,
     explanation |-> "llm explanation", columns_used |-> <<"country">>],
    [has |-> {"explanation"}, sql_query |-> UndefinedSeq,
     explanation |-> "llm explanation", columns_used |-> <<>>] }

\* The answers an LLM call may get: the call raises, a text that yields no object,
\* the empty object, or a text that denotes one of `objs`
TextObject == <<"w", "{", "f", "}">>

LlmResponses(objs) ==
  {LlmRaise}
    \cup {LlmText(t, CHOOSE o \in objs : TRUE) : t \in SampleTexts \ {TextObject}}
    \cup {LlmText(TextObject, o) : o \in objs}

\* The answers an LLM call of a request may get: the call raises, a text with braces
\* that is no JSON, the empty object (every field missing), or one of `objs`
HandlerResponses(objs) ==
  {LlmRaise}
    \cup {LlmText(t, CHOOSE o \in objs : TRUE) : t \in {<<"{", "w", "}">>, <<"{", "}">>}}
    \cup {LlmText(TextObject, o) : o \in objs}

SynthResponsesDirect == LlmResponses(SynthObjs)

\* The synthesis the handler makes before it calls the controller
SynthResponsesHandler ==
  Scripted(HandlerResponses({o \in SynthObjs : "sql_query" \in o.has}),
           LlmText(TextObject, CHOOSE o \in SynthObjs : "sql_query" \in o.has))

\* The answers to the controller's LLM calls within a request: the call raises, a
\* text with braces that is no JSON, or one of `objs`
ControllerResponses(objs) ==
  {LlmRaise, LlmText(<<"{", "w", "}">>, CHOOSE o \in objs : TRUE)}
    \cup {LlmText(TextObject, o) : o \in objs}

SynthResponsesInRequest == ControllerResponses({o \in SynthObjs : "sql_query" \in o.has})

SynthResponses ==
  IF caller = "direct" THEN SynthResponsesDirect
  ELSE Scripted(SynthResponsesInRequest,
                LlmText(IF ScriptId = 3 /\ attempt = 1 THEN <<"{", "w", "}">> ELSE TextObject,
                        CHOOSE o \in SynthObjs : "sql_query" \in o.has))

VerifyObjsOf(scores, improved) ==
  { [has |-> {"is_valid", "confidence_score", "issues_found", "suggestions",
              "should_retry", "reasoning"} \cup h,
     is_valid |-> v, confidence_score |-> c, issues_found |-> <<"llm issue">>,
     suggestions |-> <<"llm suggestion">>, should_retry |-> r,
     improved_sql |-> LlmImprovedSql, reasoning |-> "llm reasoning"] :
    v \in BOOLEAN, c \in scores, r \in BOOLEAN, h \in improved }

VerifyResponsesDirect ==
  LlmResponses(VerifyObjsOf({40, 69, 70}, {{}, {"improved_sql"}}))

VerifyResponsesHandler ==
  ControllerResponses({o \in VerifyObjsOf({40, 70}, {{}}) :
                         o.is_valid /\ o.should_retry = (o.confidence_score = 40)})

VerifyResponses ==
  IF caller = "direct" THEN VerifyResponsesDirect
  ELSE Scripted(VerifyResponsesHandler,
                IF ScriptId = 1
                THEN LlmText(TextObject,
                             CHOOSE o \in VerifyObjsOf({40, 70}, {{}}) :
                               /\ o.is_valid
                               /\ o.confidence_score = (IF attempt = 0 THEN 40 ELSE 70)
                               /\ o.should_retry = (attempt = 0))
                ELSE LlmText(<<"{", "w", "}">>, CHOOSE o \in VerifyObjsOf({70}, {{}}) : TRUE))

\* A well-formed ColumnAnalysis, and one without required_columns
GoodAnalysis ==
  [required_columns |-> <<"country", "medal">>, chart_type |-> "bar",
   alternative_charts |-> <<"column", "pie">>, data_aggregation |-> "count",
   x_axis |-> "country", y_axis |-> "count", analysis |-> "llm"]

MalformedAnalysis == [GoodAnalysis EXCEPT !.required_columns = UndefinedSeq]

----------------------------------------------------------------------------
\* The controller's steps, one per awaited call.

handlerVars ==
  <<stream, userQuery, availableTables, bestTable, availableColumns, promptImprovement,
    columnAnalysis, analysisPath, sampleData, result, payload, harness, faults>>

\* while (attempt <= maxRetries): synthesize the statement of this attempt
CSynth ==
  /\ pc = "c_synth"
  /\ calls.synth < CallCap
  /\ UNCHANGED <<handlerVars, caller, originalPrompt, maxRetries, lastResult, queryResults>>
  /\ IF attempt <= maxRetries
     THEN \E resp \in SynthResponses :
            LET prompt == SynthesisPrompt(originalPrompt, attempt, maxRetries, lastResult)
                r == generateSQLQueryWithAI(resp, columnAnalysis, bestTable.name)
            IN /\ calls' = [calls EXCEPT !.synth = @ + 1,
                                         !.llm = @ + (IF r.llmCalled THEN 1 ELSE 0)]
               /\ IF r.raised
                  THEN /\ currentSqlData' = currentSqlData
                       /\ Catch(r.error)
                       /\ log' = [LogAttempt("synth_raise", <<>>, currentSqlData,
                                             NullVerification, r.error)
                                    EXCEPT !.prompt = prompt]
                  ELSE /\ currentSqlData' = r.value
                       /\ pc' = "c_exec"
                       /\ log' = [log EXCEPT !.prompt = prompt]
                       /\ UNCHANGED <<attempt, lastError, retryOutcome>>
     ELSE /\ pc' = ReturnPc
          /\ retryOutcome' = UndefinedOutcome
          /\ UNCHANGED <<calls, currentSqlData, log, attempt, lastError>>

\* const queryResults = await executeQuery(currentSqlData.sqlQuery)
CExec ==
  /\ pc = "c_exec"
  /\ calls.exec < CallCap
  /\ UNCHANGED <<handlerVars, caller, originalPrompt, maxRetries, lastResult, currentSqlData>>
  /\ \E outcome \in ExecOutcomes :
       LET r == executeQuery(currentSqlData.sqlQuery, outcome)
       IN /\ calls' = Called("exec")
          /\ IF r.raised
             THEN /\ Catch(r.error)
                  /\ log' = LogAttempt("exec_raise", <<>>, currentSqlData, NullVerification,
                                       r.error)
                  /\ queryResults' = queryResults
             ELSE /\ queryResults' = [isArray |-> r.isArray, rows |-> r.value]
                  /\ pc' = "c_verify"
                  /\ UNCHANGED <<attempt, lastError, retryOutcome, log>>

\* const verification = await verifyQueryResultsWithAI(...), and the decision
CVerify ==
  /\ pc = "c_verify"
  /\ calls.verify < CallCap
  /\ UNCHANGED <<handlerVars, caller, originalPrompt, maxRetries, currentSqlData, queryResults>>
  /\ \E resp \in VerifyResponses :
       LET r == verifyQueryResultsWithAI(resp, queryResults.rows, queryResults.isArray)
           verification == r.value
           res == AttemptResult(queryResults.rows, currentSqlData, verification, attempt,
                                maxRetries)
           tag == IF verification.confidenceScore = 40 /\ verification.shouldRetry
                  THEN "lowconf" ELSE "verified"
       IN /\ calls' = [calls EXCEPT !.verify = @ + 1,
                                    !.llm = @ + (IF r.llmCalled THEN 1 ELSE 0)]
          /\ IF r.raised
             THEN /\ Catch(r.error)
                  /\ log' = LogAttempt("verify_raise", <<>>, currentSqlData, NullVerification,
                                       r.error)
                  /\ lastResult' = lastResult
             ELSE /\ log' = LogAttempt(tag, queryResults.rows, currentSqlData, verification,
                                       Null)
                  /\ lastError' = lastError
                  /\ IF Acceptable(verification)
                     THEN /\ retryOutcome' = res
                          /\ pc' = ReturnPc
                          /\ UNCHANGED <<attempt, lastResult>>
                     ELSE IF RetryAllowed(verification, attempt, maxRetries)
                     THEN /\ lastResult' = <<res>>
                          /\ attempt' = NextAttempt(attempt)
                          /\ pc' = "c_synth"
                          /\ retryOutcome' = retryOutcome
                     ELSE /\ retryOutcome' = res
                          /\ pc' = ReturnPc
                          /\ UNCHANGED <<attempt, lastResult>>

\* The controller called on its own, with any retry budget and any analysis
CtlInit ==
  /\ pc = "c_synth"
  /\ caller = "direct"
  /\ stream = <<>>
  /\ userQuery = <<"show", "medal">>
  /\ availableTables = <<DefaultTable>>
  /\ bestTable = DefaultTable
  /\ availableColumns = analyzeTableStructure(StoreRows(StoreColumns("olympic_medalists")))
  /\ promptImprovement = improveUserPromptFallback(<<"show", "medal">>)
  /\ columnAnalysis \in {GoodAnalysis, MalformedAnalysis}
  /\ analysisPath = "none"
  /\ sampleData = <<>>
  /\ result = NullSqlData
  /\ originalPrompt = <<"show", "medal">>
  /\ maxRetries \in -1..MaxRetriesBound
  /\ attempt = 0
  /\ lastResult = <<>>
  /\ lastError = Null
  /\ currentSqlData = NullSqlData
  /\ queryResults = [isArray |-> TRUE, rows |-> <<>>]
  /\ retryOutcome = UndefinedOutcome
  /\ payload = <<>>
  /\ calls = [synth |-> 0, exec |-> 0, verify |-> 0, llm |-> 0]
  /\ log = NullLog
  /\ harness = <<>>
  /\ faults = NoFaults

CtlNext == CSynth \/ CExec \/ CVerify

CtlSpec == CtlInit /\ [][CtlNext]_vars

\* await resumes every suspended call: the controller's steps are taken
CtlFairSpec == CtlSpec /\ WF_vars(CtlNext)

----------------------------------------------------------------------------
\* What the store and the LLM may answer a request.

TableOutcomes ==
  Scripted({StoreRaise(m) : m \in ErrorMessages}
             \cup {StoreRows(l) : l \in StoreTableLists \ {<<>>}},
           IF ScriptId = 2 THEN StoreRaise("ER_PARSE_ERROR")
           ELSE StoreRows(CHOOSE l \in StoreTableLists : l # <<>>))

ColumnOutcomes(tableName) ==
  Scripted({StoreRaise(m) : m \in ErrorMessages} \cup {StoreRows(StoreColumns(tableName))},
           IF ScriptId = 2 THEN StoreRaise("ER_PARSE_ERROR")
           ELSE StoreRows(StoreColumns(tableName)))

TableRow ==
  [keys |-> <<"country", "medal">>,
   vals |-> <<[t |-> "string", n |-> 0, s |-> "Thailand"],
              [t |-> "string", n |-> 0, s |-> "Gold"]>>]

SampleOutcomes ==
  Scripted({StoreRaise(m) : m \in ErrorMessages} \cup {StoreRows(<<TableRow>>)},
           IF ScriptId = 2 THEN StoreRaise("ER_PARSE_ERROR") ELSE StoreRows(<<TableRow>>))

\* The refiner's answers: a prompt that names a line chart, and one that names none
RefineObjs ==
  { [has |-> {"improved_prompt", "reasoning"}, improved_prompt |-> q,
     reasoning |-> "llm reasoning"] : q \in {<<"th_kraf_sen">>, <<"show", "medal">>} }

RefineResponses ==
  Scripted(HandlerResponses(RefineObjs),
           CASE ScriptId = 1 -> LlmRaise
             [] ScriptId = 2 ->
                  LlmText(TextObject,
                          CHOOSE o \in RefineObjs : o.improved_prompt = <<"th_kraf_sen">>)
             [] OTHER -> LlmText(<<"{", "}">>, CHOOSE o \in RefineObjs : TRUE))

AnalysisObjs ==
  { [has |-> {"required_columns", "chart_type", "alternative_charts", "data_aggregation",
              "x_axis", "y_axis", "analysis"},
     required_columns |-> cols, chart_type |-> "line",
     alternative_charts |-> <<"area">>, data_aggregation |-> "count",
     x_axis |-> "country", y_axis |-> "count", analysis |-> "llm"] :
    cols \in {<<"country">>, <<"country", "athlete">>} }

AnalysisResponses ==
  Scripted(HandlerResponses(AnalysisObjs),
           LlmText(TextObject,
                   CHOOSE o \in AnalysisObjs : o.required_columns = <<"country">>))

----------------------------------------------------------------------------
\* The /api/query-stream handler, one step per awaited stage.

ctlVars ==
  <<originalPrompt, maxRetries, attempt, lastResult, lastError, currentSqlData,
    queryResults, retryOutcome, log>>

\* The first notifications of a request
HReceive ==
  /\ pc = "h_receive"
  /\ stream' = stream \o <<Status("receive", 20), Status("receive", 50), Status("table", 55)>>
  /\ pc' = "h_tables"
  /\ UNCHANGED <<caller, userQuery, availableTables, bestTable, availableColumns,
                 promptImprovement, columnAnalysis, analysisPath, sampleData, result,
                 payload, calls, harness, faults, ctlVars>>

\* getAvailableTables and detectBestTable
HTables ==
  /\ pc = "h_tables"
  /\ UNCHANGED <<caller, userQuery, availableColumns, promptImprovement, columnAnalysis,
                 analysisPath, sampleData, result, payload, calls, harness, ctlVars>>
  /\ \E outcome \in TableOutcomes :
       LET r == getAvailableTables(outcome)
       IN /\ faults' = [faults EXCEPT !.tables = outcome.kind = "raise"]
          /\ IF r.raised
             THEN /\ HandlerCatch(r.error)
                  /\ UNCHANGED <<availableTables, bestTable>>
             ELSE /\ availableTables' = r.value
                  /\ bestTable' = detectBestTable(userQuery, r.value)
                  /\ stream' = Append(stream, Status("table", 58))
                  /\ pc' = "h_columns"

\* getAvailableColumns
HColumns ==
  /\ pc = "h_columns"
  /\ UNCHANGED <<caller, userQuery, availableTables, bestTable, promptImprovement,
                 columnAnalysis, analysisPath, sampleData, result, payload, calls, harness,
                 ctlVars>>
  /\ \E outcome \in ColumnOutcomes(bestTable.name) :
       LET r == getAvailableColumns(outcome)
       IN /\ faults' = [faults EXCEPT !.columns = outcome.kind = "raise"]
          /\ IF r.raised
             THEN /\ HandlerCatch(r.error)
                  /\ UNCHANGED availableColumns
             ELSE /\ availableColumns' = r.value
                  /\ stream' = Append(stream, Status("refine", 59))
                  /\ pc' = "h_refine"

\* improveUserPrompt, its notification, and the database status notification
HRefine ==
  /\ pc = "h_refine"
  /\ UNCHANGED <<caller, userQuery, availableTables, bestTable, availableColumns,
                 columnAnalysis, analysisPath, sampleData, result, payload, harness, ctlVars>>
  /\ calls' = Called("llm")
  /\ \E resp \in RefineResponses :
       LET r == improveUserPrompt(resp, userQuery)
       IN /\ faults' = [faults EXCEPT !.refine = resp.kind = "raise"]
          /\ IF r.raised
             THEN /\ HandlerCatch(r.error)
                  /\ UNCHANGED promptImprovement
             ELSE /\ promptImprovement' = r.value
                  /\ stream' = stream \o <<Status("refine", 60), Status("schema", 60)>>
                  /\ pc' = "h_analyze"

\* detectChartTypeFromQuery(finalUserQuery), then the fast or the slow path
HAnalyze ==
  /\ pc = "h_analyze"
  /\ UNCHANGED <<caller, userQuery, availableTables, bestTable, availableColumns,
                 promptImprovement, sampleData, result, payload, harness, faults, ctlVars>>
  /\ LET finalUserQuery == promptImprovement.improvedPrompt
         detectedChartType == detectChartTypeFromQuery(finalUserQuery)
     IN IF detectedChartType # Null
        THEN /\ columnAnalysis' = fastPathAnalysis(detectedChartType, availableColumns)
             /\ analysisPath' = "fast"
             /\ stream' = stream \o <<Status("analysis", 70), Status("analysis", 75)>>
             /\ pc' = "h_sample"
             /\ calls' = calls
        ELSE /\ analysisPath' = "slow"
             /\ calls' = Called("llm")
             /\ \E resp \in AnalysisResponses :
                  LET r == slowPathAnalysis(resp, availableColumns)
                  IN IF r.raised
                     THEN /\ stream' = stream \o <<Status("analysis", 65), ErrorNote(r.error)>>
                          /\ pc' = "h_closed"
                          /\ columnAnalysis' = columnAnalysis
                     ELSE /\ columnAnalysis' = r.value
                          /\ IF r.value.required_columns = UndefinedSeq
                             THEN /\ stream' = stream \o <<Status("analysis", 65),
                                                           ErrorNote("TypeError")>>
                                  /\ pc' = "h_closed"
                             ELSE /\ stream' = stream \o <<Status("analysis", 65),
                                                           Status("analysis", 75)>>
                                  /\ pc' = "h_sample"

\* getSampleData and the notifications around it
HSample ==
  /\ pc = "h_sample"
  /\ UNCHANGED <<caller, userQuery, availableTables, bestTable, availableColumns,
                 promptImprovement, columnAnalysis, analysisPath, result, payload, calls,
                 harness, faults, ctlVars>>
  /\ \E outcome \in SampleOutcomes :
       /\ sampleData' = getSampleData(availableColumns, HandlerSampleLimit, outcome)
       /\ stream' = stream \o <<Status("sampling", 76), Status("sampling", 78),
                                Status("synthesis", 80)>>
       /\ pc' = "h_synth"

\* generateSQLQueryWithAI, then the call of executeQueryWithRetry with two retries
HSynth ==
  /\ pc = "h_synth"
  /\ UNCHANGED <<caller, userQuery, availableTables, bestTable, availableColumns,
                 promptImprovement, columnAnalysis, analysisPath, sampleData, payload,
                 harness, faults, queryResults, retryOutcome, log>>
  /\ \E resp \in SynthResponsesHandler :
       LET r == generateSQLQueryWithAI(resp, columnAnalysis, bestTable.name)
       IN /\ calls' = [calls EXCEPT !.llm = @ + (IF r.llmCalled THEN 1 ELSE 0)]
          /\ IF r.raised
             THEN /\ HandlerCatch(r.error)
                  /\ UNCHANGED <<result, originalPrompt, maxRetries, attempt, lastResult,
                                 lastError, currentSqlData>>
             ELSE /\ result' = r.value
                  /\ stream' = stream \o <<Status("synthesis", 83), Status("execution", 85),
                                           Status("execution", 85)>>
                  /\ originalPrompt' = promptImprovement.improvedPrompt
                  /\ maxRetries' = HandlerMaxRetries
                  /\ attempt' = 0
                  /\ lastResult' = <<>>
                  /\ lastError' = Null
                  /\ currentSqlData' = NullSqlData
                  /\ pc' = "c_synth"

\* The chart type of the payload taken from the query's keywords
PayloadChartType_Detected == detectChartTypeFromQuery(promptImprovement.improvedPrompt)

\* The chart type the handler passes to the chart formatter
PayloadChartType == columnAnalysis.chart_type

\* What the handler does with the controller's result: the notifications, the chart
\* data, the payload, the `result` and the `done` notification
HOutcome ==
  /\ pc = "h_outcome"
  /\ UNCHANGED <<caller, userQuery, availableTables, bestTable, availableColumns,
                 promptImprovement, columnAnalysis, analysisPath, sampleData, result, calls,
                 harness, faults, ctlVars>>
  /\ LET ok == retryOutcome.defined /\ retryOutcome.success
         queryResult == IF ok THEN retryOutcome.queryResults ELSE MockRows
         executionError ==
           IF ok THEN Null
           ELSE IF retryOutcome.defined /\ retryOutcome.error # Null THEN retryOutcome.error
           ELSE "Unknown execution error"
         notes ==
           IF ok
           THEN <<Status("verification", 90)>>
                  \o (IF retryOutcome.attempt > 1 THEN <<Status("retry", 92)>> ELSE <<>>)
           ELSE <<Status("retry", 90)>>
         chartData == parseQueryResultToChartData(queryResult)
         sqlInfo == IF retryOutcome.defined THEN retryOutcome.sqlData ELSE result
         finalUserQuery == promptImprovement.improvedPrompt
         query_execution ==
           [success |-> executionError = Null, error |-> executionError,
            rows_returned |-> Len(queryResult)]
         data_range == IF executionError # Null THEN "mock data (query failed)"
                       ELSE "real data from database"
         metadata ==
           [columns_used |-> IF Len(sqlInfo.columnsUsed) > 0 THEN sqlInfo.columnsUsed
                             ELSE columnAnalysis.required_columns,
            total_records |-> Len(chartData),
            data_range |-> data_range,
            sql_query |-> sqlInfo.sqlQuery,
            sql_explanation |-> sqlInfo.explanation,
            query_execution |-> query_execution,
            ai_verification |->
              IF retryOutcome.defined
              THEN <<[is_valid |-> retryOutcome.verification.isValid,
                      confidence_score |-> retryOutcome.verification.confidenceScore]>>
              ELSE <<>>,
            retry_info |->
              IF retryOutcome.defined
              THEN <<[attempts_made |-> retryOutcome.attempt,
                      max_retries |-> retryOutcome.maxRetries,
                      final_success |-> retryOutcome.success]>>
              ELSE <<>>,
            prompt_improvement |->
              [original_prompt |-> userQuery, improved_prompt |-> finalUserQuery,
               was_improved |-> promptImprovement.wasImproved]]
         legacy_metadata ==
           [columns_used |-> IF Len(result.columnsUsed) > 0 THEN result.columnsUsed
                             ELSE columnAnalysis.required_columns,
            total_records |-> Len(chartData),
            data_range |-> data_range,
            sql_query |-> result.sqlQuery,
            sql_explanation |-> result.explanation,
            query_execution |-> query_execution]
     IN /\ payload' = << [chart |-> generateShadcnChartResponse(PayloadChartType,
                                                                chartData),
                          title |-> IF promptImprovement.wasImproved THEN finalUserQuery
                                    ELSE userQuery,
                          metadata |-> metadata,
                          legacy_data |-> chartData,
                          legacy_metadata |-> legacy_metadata,
                          column_analysis |-> columnAnalysis] >>
        /\ stream' = stream \o notes \o <<Status("completion", 95), ResultNote, DoneNote>>
        /\ pc' = "h_closed"

\* A request with any of the queries
Init ==
  /\ pc = "h_receive"
  /\ caller = "handler"
  /\ stream = <<>>
  /\ userQuery \in HandlerQueries
  /\ availableTables = <<>>
  /\ bestTable = FallbackTable
  /\ availableColumns = <<>>
  /\ promptImprovement = improveUserPromptFallback(<<>>)
  /\ columnAnalysis = GoodAnalysis
  /\ analysisPath = "none"
  /\ sampleData = FallbackSample
  /\ result = NullSqlData
  /\ originalPrompt = <<>>
  /\ maxRetries = HandlerMaxRetries
  /\ attempt = 0
  /\ lastResult = <<>>
  /\ lastError = Null
  /\ currentSqlData = NullSqlData
  /\ queryResults = [isArray |-> TRUE, rows |-> <<>>]
  /\ retryOutcome = UndefinedOutcome
  /\ payload = <<>>
  /\ calls = [synth |-> 0, exec |-> 0, verify |-> 0, llm |-> 0]
  /\ log = NullLog
  /\ harness = <<>>
  /\ faults = NoFaults

Next ==
  \/ HReceive
  \/ HTables
  \/ HColumns
  \/ HRefine
  \/ HAnalyze
  \/ HSample
  \/ HSynth
  \/ CSynth
  \/ CExec
  \/ CVerify
  \/ HOutcome

Spec == Init /\ [][Next]_vars

----------------------------------------------------------------------------
\* Two requests in one process.  Everything a request works on is a local of its
\* handler invocation or of the functions it calls: no function of the module assigns
\* a variable declared outside itself, and the LLM clients and store connections are
\* made in the call that uses them.  A request runs from one await to the next; at an
\* await the event loop may resume the other request, whose locals are then the ones
\* current.  The first request runs alone first, and its ColumnAnalysis, RetryOutcome
\* and notifications are kept in harness.baseline; then it runs again beside the second.

\* The locals of the request that is running
LocalState ==
  [pc |-> pc, stream |-> stream, userQuery |-> userQuery,
   availableTables |-> availableTables, bestTable |-> bestTable,
   availableColumns |-> availableColumns, promptImprovement |-> promptImprovement,
   columnAnalysis |-> columnAnalysis, analysisPath |-> analysisPath,
   sampleData |-> sampleData, result |-> result, originalPrompt |-> originalPrompt,
   maxRetries |-> maxRetries, attempt |-> attempt, lastResult |-> lastResult,
   lastError |-> lastError, currentSqlData |-> currentSqlData,
   queryResults |-> queryResults, retryOutcome |-> retryOutcome,
   payload |-> payload, calls |-> calls, log |-> log, faults |-> faults]

\* The locals of a request that has not started
FreshRequest(query) ==
  [pc |-> "h_receive", stream |-> <<>>, userQuery |-> query,
   availableTables |-> <<>>, bestTable |-> FallbackTable,
   availableColumns |-> <<>>,
   promptImprovement |-> improveUserPromptFallback(<<>>),
   columnAnalysis |-> GoodAnalysis, analysisPath |-> "none",
   sampleData |-> FallbackSample, result |-> NullSqlData, originalPrompt |-> <<>>,
   maxRetries |-> HandlerMaxRetries, attempt |-> 0, lastResult |-> <<>>,
   lastError |-> Null, currentSqlData |-> NullSqlData,
   queryResults |-> [isArray |-> TRUE, rows |-> <<>>],
   retryOutcome |-> UndefinedOutcome, payload |-> <<>>,
   calls |-> [synth |-> 0, exec |-> 0, verify |-> 0, llm |-> 0], log |-> NullLog,
   faults |-> NoFaults]

Resume_SharedAnalysis(r) ==
  /\ pc' = r.pc
  /\ stream' = r.stream
  /\ userQuery' = r.userQuery
  /\ availableTables' = r.availableTables
  /\ bestTable' = r.bestTable
  /\ availableColumns' = r.availableColumns
  /\ promptImprovement' = r.promptImprovement
  /\ columnAnalysis' = columnAnalysis
  /\ analysisPath' = r.analysisPath
  /\ sampleData' = r.sampleData
  /\ result' = r.result
  /\ originalPrompt' = r.originalPrompt
  /\ maxRetries' = r.maxRetries
  /\ attempt' = r.attempt
  /\ lastResult' = r.lastResult
  /\ lastError' = r.lastError
  /\ currentSqlData' = r.currentSqlData
  /\ queryResults' = r.queryResults
  /\ retryOutcome' = r.retryOutcome
  /\ payload' = r.payload
  /\ calls' = r.calls
  /\ log' = r.log
  /\ faults' = r.faults

\* The continuation of request r runs: its locals are the current ones
Resume(r) ==
  /\ pc' = r.pc
  /\ stream' = r.stream
  /\ userQuery' = r.userQuery
  /\ availableTables' = r.availableTables
  /\ bestTable' = r.bestTable
  /\ availableColumns' = r.availableColumns
  /\ promptImprovement' = r.promptImprovement
  /\ columnAnalysis' = r.columnAnalysis
  /\ analysisPath' = r.analysisPath
  /\ sampleData' = r.sampleData
  /\ result' = r.result
  /\ originalPrompt' = r.originalPrompt
  /\ maxRetries' = r.maxRetries
  /\ attempt' = r.attempt
  /\ lastResult' = r.lastResult
  /\ lastError' = r.lastError
  /\ currentSqlData' = r.currentSqlData
  /\ queryResults' = r.queryResults
  /\ retryOutcome' = r.retryOutcome
  /\ payload' = r.payload
  /\ calls' = r.calls
  /\ log' = r.log
  /\ faults' = r.faults

\* What a request produces
Observed(r) ==
  [columnAnalysis |-> r.columnAnalysis, retryOutcome |-> r.retryOutcome,
   stream |-> r.stream]

\* The first request has run alone; it is sent again, and the second one with it
ConcurrentArrive ==
  /\ harness.phase = "alone"
  /\ pc = "h_closed"
  /\ Resume(FreshRequest(userQuery))
  /\ harness' = [harness EXCEPT !.phase = "together", !.baseline = Observed(LocalState)]
  /\ caller' = caller

\* At an await of the running request the event loop resumes the other one
AwaitSwitch ==
  /\ harness.phase = "together"
  /\ harness.other.pc # "h_closed"
  /\ Resume(harness.other)
  /\ harness' = [harness EXCEPT !.other = LocalState,
                                !.active = 3 - @,
                                !.interleaved = @ \/ ( /\ pc \notin {"h_receive", "h_closed"}
                                                      /\ harness.other.pc # "h_receive" )]
  /\ caller' = caller

PairInit ==
  /\ pc = "h_receive"
  /\ caller = "concurrent"
  /\ stream = <<>>
  /\ userQuery \in HandlerQueries
  /\ availableTables = <<>>
  /\ bestTable = FallbackTable
  /\ availableColumns = <<>>
  /\ promptImprovement = improveUserPromptFallback(<<>>)
  /\ columnAnalysis = GoodAnalysis
  /\ analysisPath = "none"
  /\ sampleData = FallbackSample
  /\ result = NullSqlData
  /\ originalPrompt = <<>>
  /\ maxRetries = HandlerMaxRetries
  /\ attempt = 0
  /\ lastResult = <<>>
  /\ lastError = Null
  /\ currentSqlData = NullSqlData
  /\ queryResults = [isArray |-> TRUE, rows |-> <<>>]
  /\ retryOutcome = UndefinedOutcome
  /\ payload = <<>>
  /\ calls = [synth |-> 0, exec |-> 0, verify |-> 0, llm |-> 0]
  /\ log = NullLog
  /\ harness \in {[phase |-> "alone", active |-> 1, other |-> FreshRequest(query),
                    baseline |-> Observed(FreshRequest(query)), interleaved |-> FALSE] :
                   query \in HandlerQueries}
  /\ faults = NoFaults

PairNext == Next \/ ConcurrentArrive \/ AwaitSwitch

PairSpec == PairInit /\ [][PairNext]_vars

----------------------------------------------------------------------------
\* The four components that read an LLM answer, each applied to every text of up to
\* MaxTextLen tokens.  `harness` records the component, its input, whether it reached
\* its LLM call, whether it raised, and the value it returned.

ParseVars ==
  <<caller, stream, userQuery, availableTables, bestTable, availableColumns,
    promptImprovement, columnAnalysis, analysisPath, sampleData, result, payload, calls,
    faults, ctlVars>>

Applied(component, input, r, llmCalled) ==
  [text |-> harness.text, component |-> component, input |-> input,
   llmCalled |-> llmCalled, raised |-> r.raised, value |-> r.value, answer |-> "text"]

\* improveUserPrompt on the text, or with an LLM call that raises
PRefine ==
  /\ pc = "p_ready"
  /\ \E o \in RefineObjs, q \in HandlerQueries :
       \E resp \in {LlmText(harness.text, o), LlmRaise} :
          harness' = [Applied("refiner", q, improveUserPrompt(resp, q), TRUE)
                        EXCEPT !.answer = resp.kind]
  /\ pc' = "p_done"
  /\ UNCHANGED ParseVars

\* the slow path of the analysis on the text
PAnalyze ==
  /\ pc = "p_ready"
  /\ \E o \in AnalysisObjs, cols \in {availableColumns, GenericFallbackColumns} :
       harness' = Applied("analyzer", cols, slowPathAnalysis(LlmText(harness.text, o), cols),
                          TRUE)
  /\ pc' = "p_done"
  /\ UNCHANGED ParseVars

\* generateSQLQueryWithAI on the text, or with an LLM call that raises
PSynth ==
  /\ pc = "p_ready"
  /\ \E o \in SynthObjs, analysis \in {GoodAnalysis, MalformedAnalysis,
                                       [GoodAnalysis EXCEPT !.required_columns = <<>>]} :
       \E resp \in {LlmText(harness.text, o), LlmRaise} :
          LET r == generateSQLQueryWithAI(resp, analysis, bestTable.name)
          IN harness' = [Applied("synthesizer", analysis, r, r.llmCalled)
                           EXCEPT !.answer = resp.kind]
  /\ pc' = "p_done"
  /\ UNCHANGED ParseVars

\* verifyQueryResultsWithAI on the text, or with an LLM call that raises; the LLM's
\* confidence_score may be any number
PVerify ==
  /\ pc = "p_ready"
  /\ \E o \in VerifyObjsOf({-5, 40, 70, 150}, {{}}), outcome \in ExecOutcomesDirect :
       \E resp \in {LlmText(harness.text, o), LlmRaise} :
          LET r == verifyQueryResultsWithAI(resp, outcome.rows, outcome.kind = "rows")
          IN harness' = [Applied("verifier", outcome.rows, r, r.llmCalled)
                           EXCEPT !.answer = resp.kind]
  /\ pc' = "p_done"
  /\ UNCHANGED ParseVars

ParseInit ==
  /\ pc = "p_ready"
  /\ caller = "direct"
  /\ stream = <<>>
  /\ userQuery = <<"show", "medal">>
  /\ availableTables = <<DefaultTable>>
  /\ bestTable = DefaultTable
  /\ availableColumns = analyzeTableStructure(StoreRows(StoreColumns("olympic_medalists")))
  /\ promptImprovement = improveUserPromptFallback(<<"show", "medal">>)
  /\ columnAnalysis = GoodAnalysis
  /\ analysisPath = "none"
  /\ sampleData = FallbackSample
  /\ result = NullSqlData
  /\ originalPrompt = <<"show", "medal">>
  /\ maxRetries = HandlerMaxRetries
  /\ attempt = 0
  /\ lastResult = <<>>
  /\ lastError = Null
  /\ currentSqlData = NullSqlData
  /\ queryResults = [isArray |-> TRUE, rows |-> <<>>]
  /\ retryOutcome = UndefinedOutcome
  /\ payload = <<>>
  /\ calls = [synth |-> 0, exec |-> 0, verify |-> 0, llm |-> 0]
  /\ log = NullLog
  /\ harness \in {[text |-> t, component |-> "none", input |-> <<>>, llmCalled |-> FALSE,
                   raised |-> FALSE, value |-> <<>>, answer |-> "none"] : t \in Texts}
  /\ faults = NoFaults

ParseNext == PRefine \/ PAnalyze \/ PSynth \/ PVerify

ParseSpec == ParseInit /\ [][ParseNext]_vars

----------------------------------------------------------------------------
\* The store operations called on their own: executeQuery on a statement,
\* getSampleData with every limit from -2 to SampleLimitBound and with 1000, and
\* getAvailableColumns on a table of one column.
\* `harness` records the operation, its input, what the store did, and what the
\* operation returned or raised.

\* largest limit of the contiguous range of limits tried
SampleLimitBound == 102

SampleLimits == (-2..SampleLimitBound) \cup {1000}

\* The rows of the sampled table
SampleTableRows == <<TableRow, TableRow, TableRow>>

\* What the store may do in one operation: refuse the connection, reject the
\* statement, return rows or a result header, or return rows and then fail to close
StoreCallOutcomes ==
  {StoreConnectRaise("ECONNREFUSED"), StoreRaise("ER_PARSE_ERROR"),
   StoreRows(<<>>), StoreRows(SampleTableRows),
   [kind |-> "header", error |-> Null, rows |-> <<>>],
   StoreEndRaise(SampleTableRows, "PROTOCOL_CONNECTION_LOST")}

StoreHarnessStart(limit) ==
  [op |-> "none", limit |-> limit, statement |-> NullSeq, store |-> "none",
   storeError |-> Null, storeRows |-> <<>>, raised |-> FALSE, error |-> Null,
   value |-> <<>>, opened |-> FALSE, ended |-> FALSE, requested |-> 0]

\* executeQuery(statement)
SExecute ==
  /\ pc = "s_ready"
  /\ \E statement \in {LlmSql, UndefinedSeq}, outcome \in StoreCallOutcomes :
       LET r == executeQuery(statement, outcome)
       IN harness' = [harness EXCEPT !.op = "execute", !.statement = statement,
                                     !.store = outcome.kind, !.storeError = outcome.error,
                                     !.storeRows = outcome.rows,
                                     !.raised = r.raised, !.error = r.error,
                                     !.value = r.value, !.opened = r.opened,
                                     !.ended = r.ended]
  /\ pc' = "s_done"
  /\ UNCHANGED ParseVars

\* getSampleData(tableName, availableColumns, limit): `requested` is the LIMIT of the
\* SELECT statement sent to the store, 0 when no statement was sent
SSample ==
  /\ pc = "s_ready"
  /\ \E outcome \in StoreCallOutcomes \ {StoreEndRaise(SampleTableRows,
                                                       "PROTOCOL_CONNECTION_LOST")} :
       harness' = [harness EXCEPT !.op = "sample", !.store = outcome.kind,
                                  !.storeError = outcome.error,
                                  !.storeRows = outcome.rows,
                                  !.requested = IF outcome.kind = "connect_raise" THEN 0
                                                ELSE SafeLimit(harness.limit),
                                  !.value = getSampleData(availableColumns, harness.limit,
                                                          outcome)]
  /\ pc' = "s_done"
  /\ UNCHANGED ParseVars

\* Metadata rows the store may hold for a column: names and declared types of each
\* kind, without a comment or with one
MetadataRows ==
  {[column_name |-> n, data_type |-> t, column_comment |-> c] :
     n \in {"year", "country_code", "event_type", "medal", "amount"},
     t \in {"int", "smallint", "varchar", "char", "text", "datetime"},
     c \in {"", "medal type (enum)"}}

\* getAvailableColumns(tableName) on a table of one column, or on a store that raises
SColumns ==
  /\ pc = "s_ready"
  /\ \E outcome \in {StoreRaise("ER_PARSE_ERROR")} \cup {StoreRows(<<row>>) : row \in MetadataRows} :
       LET r == getAvailableColumns(outcome)
       IN harness' = [harness EXCEPT !.op = "columns", !.store = outcome.kind,
                                     !.storeError = outcome.error,
                                     !.storeRows = outcome.rows,
                                     !.raised = r.raised, !.error = r.error,
                                     !.value = r.value]
  /\ pc' = "s_done"
  /\ UNCHANGED ParseVars

StoreInit ==
  /\ pc = "s_ready"
  /\ caller = "direct"
  /\ stream = <<>>
  /\ userQuery = <<"show", "medal">>
  /\ availableTables = <<DefaultTable>>
  /\ bestTable = DefaultTable
  /\ availableColumns = analyzeTableStructure(StoreRows(StoreColumns("olympic_medalists")))
  /\ promptImprovement = improveUserPromptFallback(<<"show", "medal">>)
  /\ columnAnalysis = GoodAnalysis
  /\ analysisPath = "none"
  /\ sampleData = FallbackSample
  /\ result = NullSqlData
  /\ originalPrompt = <<"show", "medal">>
  /\ maxRetries = HandlerMaxRetries
  /\ attempt = 0
  /\ lastResult = <<>>
  /\ lastError = Null
  /\ currentSqlData = NullSqlData
  /\ queryResults = [isArray |-> TRUE, rows |-> <<>>]
  /\ retryOutcome = UndefinedOutcome
  /\ payload = <<>>
  /\ calls = [synth |-> 0, exec |-> 0, verify |-> 0, llm |-> 0]
  /\ log = NullLog
  /\ harness \in {StoreHarnessStart(l) : l \in SampleLimits}
  /\ faults = NoFaults

StoreNext == SExecute \/ SSample \/ SColumns

StoreSpec == StoreInit /\ [][StoreNext]_vars

----------------------------------------------------------------------------
\* The two detectors called on their own: detectBestTable and detectChartTypeFromQuery
\* on every query of up to DetectQueryLen words, the former with each table list.
\* `harness` records the query, the tables, each table's score, the table chosen and
\* the chart type detected.

\* longest query tried, in words
DetectQueryLen == 2

DetectWords ==
  {"show", "medal", "medalists", "olympic_medalists", "sales", "orders", "sales_orders",
   "th_khai", "th_sinkha", "PIE CHART", "pie chart", "donut chart", "th_priapthiap",
   "th_kraf_sen", "histogram"}

DetectQueries ==
  UNION {[1..n -> DetectWords] : n \in 0..DetectQueryLen}

\* The table lists getAvailableTables may return, in both orders, with and without
\* comments, and the empty list
DetectTableLists ==
  LET olympic == [name |-> "olympic_medalists", comment |-> "th_mai_mi_khamathibai"]
      sales == [name |-> "sales_orders", comment |-> "th_kan_khai"]
      plain == [name |-> "sales_orders", comment |-> "th_mai_mi_khamathibai"]
  IN {<<>>, <<olympic, sales>>, <<sales, olympic>>, <<olympic, plain>>, <<DefaultTable>>}

\* detectBestTable(query, tables), with the score of each table
DTable ==
  /\ pc = "d_ready"
  /\ harness' = [harness EXCEPT
                   !.op = "table",
                   !.scores = [i \in 1..Len(harness.tables) |->
                                 TableScore(harness.query, harness.tables[i])],
                   !.best = detectBestTable(harness.query, harness.tables)]
  /\ pc' = "d_done"
  /\ UNCHANGED ParseVars

\* detectChartTypeFromQuery(query)
DChart ==
  /\ pc = "d_ready"
  /\ harness' = [harness EXCEPT !.op = "chart",
                                !.chart = detectChartTypeFromQuery(harness.query)]
  /\ pc' = "d_done"
  /\ UNCHANGED ParseVars

DetectInit ==
  /\ pc = "d_ready"
  /\ caller = "direct"
  /\ stream = <<>>
  /\ userQuery = <<>>
  /\ availableTables = <<>>
  /\ bestTable = FallbackTable
  /\ availableColumns = <<>>
  /\ promptImprovement = improveUserPromptFallback(<<>>)
  /\ columnAnalysis = GoodAnalysis
  /\ analysisPath = "none"
  /\ sampleData = FallbackSample
  /\ result = NullSqlData
  /\ originalPrompt = <<>>
  /\ maxRetries = HandlerMaxRetries
  /\ attempt = 0
  /\ lastResult = <<>>
  /\ lastError = Null
  /\ currentSqlData = NullSqlData
  /\ queryResults = [isArray |-> TRUE, rows |-> <<>>]
  /\ retryOutcome = UndefinedOutcome
  /\ payload = <<>>
  /\ calls = [synth |-> 0, exec |-> 0, verify |-> 0, llm |-> 0]
  /\ log = NullLog
  /\ harness \in {[query |-> q, tables |-> l, op |-> "none", scores |-> <<>>,
                   best |-> FallbackTable, chart |-> Null] :
                  q \in DetectQueries, l \in DetectTableLists}
  /\ faults = NoFaults

DetectNext == DTable \/ DChart

DetectSpec == DetectInit /\ [][DetectNext]_vars

\*--- CLAIMS ---------------------------------------------------------------

\* C1: for every maxRetries >= 0 and whatever the synthesizer, the executor and the
\* verifier do (return or raise), executeQueryWithRetry terminates, and it makes at
\* most maxRetries+1 synthesis calls, maxRetries+1 query executions and
\* maxRetries+1 verifications.
C1_TerminatesWithinBudget ==
  /\ <>(pc = "c_done")
  /\ [](maxRetries >= 0 =>
          /\ calls.synth <= maxRetries + 1
          /\ calls.exec <= maxRetries + 1
          /\ calls.verify <= maxRetries + 1)

\* C1 witness: a run with raising and verified attempts that used the whole budget
C1_Witness ==
  /\ pc = "c_done"
  /\ maxRetries >= 1
  /\ calls.synth = maxRetries + 1
  /\ calls.verify >= 1
  /\ calls.verify < calls.exec
  /\ log.profile = "mixed"

\* C2: when every execution succeeds and every verification returns confidence 40
\* with shouldRetry, the controller makes exactly maxRetries+1 synthesis attempts,
\* starts no attempt beyond the budget, and returns the last attempt's result with
\* success=true and attempt=maxRetries+1.
C2_LowConfidenceExhausts ==
  (log.profile = "lowconf" /\ maxRetries >= 0) =>
     /\ attempt <= maxRetries
     /\ calls.synth <= maxRetries + 1
     /\ pc = "c_done" =>
          /\ calls.synth = maxRetries + 1
          /\ log.n = maxRetries
          /\ retryOutcome.defined
          /\ retryOutcome.success
          /\ retryOutcome.attempt = maxRetries + 1
          /\ retryOutcome.queryResults = log.rows
          /\ retryOutcome.sqlData = log.sqlData
          /\ retryOutcome.verification = log.verification

\* C2 witness: three low-confidence attempts with a budget of two retries
C2_Witness ==
  /\ pc = "c_done"
  /\ log.profile = "lowconf"
  /\ maxRetries = 2
  /\ retryOutcome.attempt = 3
  /\ retryOutcome.verification.confidenceScore = 40

\* C3: when every query execution raises, the controller does not raise: each
\* failed attempt n < maxRetries leaves no result and is followed by attempt n+1,
\* and after exactly maxRetries+1 attempts it returns success=false with the last
\* error raised.
C3_ExecutorAlwaysRaises ==
  (log.profile = "exec_raise" /\ maxRetries >= 0) =>
     /\ attempt <= maxRetries
     /\ lastResult = <<>>
     /\ pc # "c_done" => attempt = log.n + 1
     /\ pc = "c_done" =>
          /\ retryOutcome.defined
          /\ ~retryOutcome.success
          /\ retryOutcome.error # Null
          /\ retryOutcome.error = log.error
          /\ retryOutcome.queryResults = <<>>
          /\ retryOutcome.attempt = maxRetries + 1
          /\ calls.exec = maxRetries + 1
          /\ calls.synth = maxRetries + 1

\* C3 witness: three raising executions with a budget of two retries
C3_Witness ==
  /\ pc = "c_done"
  /\ log.profile = "exec_raise"
  /\ maxRetries = 2
  /\ calls.exec = 3
  /\ retryOutcome.error = "ER_PARSE_ERROR"

\* The positions of the notifications of one type in the stream
NotesOfType(type) == {i \in 1..Len(stream) : stream[i].type = type}

MockChart ==
  << <<"USA", 300>>, <<"China", 250>>, <<"Japan", 150>>, <<"Great Britain", 120>>,
     <<"Germany", 100>> >>

\* C5: when the controller returns success=false, the handler goes on to a `result`
\* notification (no `error` one) whose chart data are the mock rows and whose
\* query_execution has success=false and the message of the last error.
C5_FailureYieldsMockResult ==
  (retryOutcome.defined /\ ~retryOutcome.success) =>
     /\ pc \in {"h_outcome", "h_closed"}
     /\ NotesOfType("error") = {}
     /\ pc = "h_closed" =>
          /\ Len(payload) = 1
          /\ stream[Len(stream) - 1].type = "result"
          /\ stream[Len(stream)].type = "done"
          /\ Len(payload[1].legacy_data) = Len(MockChart)
          /\ \A i \in 1..Len(MockChart) :
               /\ payload[1].legacy_data[i].label = <<MockChart[i][1]>>
               /\ payload[1].legacy_data[i].value = MockChart[i][2]
          /\ payload[1].chart.data = payload[1].legacy_data
          /\ payload[1].metadata.data_range = "mock data (query failed)"
          /\ payload[1].metadata.query_execution.success = FALSE
          /\ payload[1].metadata.query_execution.error = lastError
          /\ payload[1].metadata.query_execution.error = log.error
          /\ payload[1].metadata.query_execution.error # Null
          /\ payload[1].legacy_metadata.query_execution = payload[1].metadata.query_execution

\* C5 witness: a request closed after three failed attempts
C5_Witness ==
  /\ pc = "h_closed"
  /\ retryOutcome.defined
  /\ ~retryOutcome.success
  /\ retryOutcome.attempt = 3
  /\ Len(payload) = 1
  /\ payload[1].metadata.query_execution.error = "ER_PARSE_ERROR"

\* The place of a stage in the pipeline order: table selection, schema, refinement,
\* analysis, sampling, synthesis, execution, verification, retry iterations, completion
StageRank(stage) ==
  CASE stage = "receive" -> 0
    [] stage = "table" -> 1
    [] stage = "schema" -> 2
    [] stage = "refine" -> 3
    [] stage = "analysis" -> 4
    [] stage = "sampling" -> 5
    [] stage = "synthesis" -> 6
    [] stage = "execution" -> 7
    [] stage = "verification" -> 8
    [] stage = "retry" -> 9
    [] stage = "completion" -> 10
    [] OTHER -> 11

\* C6: no notification of an earlier stage is emitted after a notification of a later
\* stage.
C6_StreamInPipelineOrder ==
  \A i, j \in 1..Len(stream) :
     i < j => StageRank(stream[i].stage) <= StageRank(stream[j].stage)

\* C6, the request that fails it: the schema notification follows the refinement ones
C6_SchemaAfterRefinementSeen ==
  \E i, j \in 1..Len(stream) :
     /\ i < j
     /\ stream[i] = Status("refine", 59)
     /\ stream[j] = Status("schema", 60)

\* The chart types one of whose phrases occurs in a query
TypesNamedIn(query) ==
  {chartPatterns[i].type : i \in {k \in 1..Len(chartPatterns) : PatternHit(query, k)}}

\* The first chart type, in declaration order, one of whose phrases occurs in a query
FirstTypeNamedIn(query) ==
  chartPatterns[CHOOSE i \in 1..Len(chartPatterns) :
                  /\ PatternHit(query, i)
                  /\ \A k \in 1..(i - 1) : ~PatternHit(query, k)].type

\* C7 as stated: when the user query contains a recognized chart-type phrase, the
\* analysis takes the fast path, its chart type is that of a phrase of the user
\* query, and no LLM call is made for the analysis.
C7_UserQueryDecides ==
  (analysisPath # "none" /\ TypesNamedIn(userQuery) # {}) =>
     /\ analysisPath = "fast"
     /\ columnAnalysis.chart_type \in TypesNamedIn(userQuery)
     /\ Status("analysis", 65) \notin Range(stream)

\* C7 amended: when the refined query (the user query where the refiner fell back)
\* contains a recognized chart-type phrase, the analysis takes the fast path, its
\* chart type is the first declared type with a phrase in the refined query, and no
\* LLM call is made for the analysis.
C7_RefinedQueryDecides ==
  (analysisPath # "none" /\ TypesNamedIn(promptImprovement.improvedPrompt) # {}) =>
     /\ analysisPath = "fast"
     /\ columnAnalysis.chart_type = FirstTypeNamedIn(promptImprovement.improvedPrompt)
     /\ columnAnalysis.data_aggregation = "count"
     /\ Status("analysis", 65) \notin Range(stream)
     /\ pc = "h_sample" => calls.llm = 1

\* C7 witness: the refined query names a line chart, the user query none
C7_Witness ==
  /\ pc = "h_sample"
  /\ analysisPath = "fast"
  /\ TypesNamedIn(userQuery) = {}
  /\ promptImprovement.improvedPrompt = <<"th_kraf_sen">>
  /\ columnAnalysis.chart_type = "line"

\* A text without a "{" followed by a "}", or whose part from the first "{" to the
\* last "}" is no JSON object
Unparsable(text) ==
  LET opens == {i \in 1..Len(text) : text[i] = "{"}
      closes == {i \in 1..Len(text) : text[i] = "}"}
  IN \/ ~\E i \in opens, j \in closes : i < j
     \/ LET first == CHOOSE i \in opens : \A k \in opens : i <= k
            last == CHOOSE j \in closes : \A k \in closes : k <= j
        IN ~IsJsonObject(SubSeq(text, first, last))

\* C8: on an LLM text without a brace-delimited object, or whose first-brace-to-
\* last-brace part is no valid JSON, the refiner, the slow-path analyzer, the
\* synthesizer and the verifier return their fallback value and do not raise.
C8_UnparsableTextGivesFallback ==
  (pc = "p_done" /\ harness.llmCalled /\ Unparsable(harness.text)) =>
     /\ ~harness.raised
     /\ harness.component = "refiner" =>
          /\ harness.value.improvedPrompt = harness.input
          /\ ~harness.value.wasImproved
          /\ harness.value.reasoning = "AI improvement failed"
     /\ harness.component = "analyzer" =>
          /\ harness.value.chart_type = "bar"
          /\ harness.value.data_aggregation = "count"
          /\ harness.value.y_axis = "count"
          /\ harness.value.analysis = "default from column capabilities"
          /\ harness.value.required_columns \in {<<"country", "medal">>, <<"name", "category">>}
     /\ harness.component = "synthesizer" =>
          LET c == IF harness.input.required_columns = <<>> THEN "country"
                   ELSE harness.input.required_columns[1]
          IN /\ harness.value.sqlQuery =
                  <<"SELECT", c, ", COUNT(*) as count", "FROM", "olympic_medalists",
                    "GROUP BY", c, "ORDER BY count DESC", "LIMIT 15">>
             /\ harness.value.queryReasoning = "fallback: AI generation failed"
             /\ harness.value.columnsUsed = <<c>>
     /\ harness.component = "verifier" =>
          /\ harness.value.isValid = (Len(harness.input) > 0)
          /\ harness.value.confidenceScore = IF Len(harness.input) > 0 THEN 70 ELSE 30
          /\ harness.value.shouldRetry = (Len(harness.input) = 0)
          /\ harness.value.improvedSql = NullSeq
          /\ harness.value.reasoning = "basic check: AI verification failed"

\* C8 witness: the synthesizer on a text whose braces hold an object and one more "}"
C8_Witness ==
  /\ pc = "p_done"
  /\ harness.component = "synthesizer"
  /\ harness.llmCalled
  /\ harness.text = <<"{", "f", "}", "}">>
  /\ harness.value.explanation = "Fallback query"

\* C9: when the store is unreachable at the table listing or the schema
\* introspection, or the LLM at the refinement, the stage takes its fallback (the
\* default table, the generic columns, the original prompt with wasImproved false),
\* the next stage starts, and no `error` notification comes of it: the only one a
\* stream can hold follows the slow-path analysis notification.
C9_DegradedStagesProceed ==
  /\ faults.tables =>
       /\ availableTables = <<DefaultTable>>
       /\ bestTable = [name |-> "olympic_medalists", comment |-> "th_khomun_rian_olympic"]
       /\ Status("table", 58) \in Range(stream)
  /\ faults.columns =>
       /\ availableColumns = GenericFallbackColumns
       /\ Status("refine", 59) \in Range(stream)
  /\ faults.refine =>
       /\ promptImprovement.improvedPrompt = userQuery
       /\ ~promptImprovement.wasImproved
       /\ Status("refine", 60) \in Range(stream)
       /\ pc # "h_refine"
  /\ pc \in {"h_tables", "h_columns", "h_refine", "h_analyze"} => NotesOfType("error") = {}
  /\ \A i \in NotesOfType("error") : i > 1 /\ stream[i - 1] = Status("analysis", 65)

\* C9 witness: a request that met all three failures and was completed
C9_Witness ==
  /\ faults.tables
  /\ faults.columns
  /\ faults.refine
  /\ pc = "h_closed"
  /\ Len(payload) = 1
  /\ NotesOfType("result") # {}

\* C10: whenever the verification of attempt n is valid with confidence >= 70, the
\* controller has returned success=true, attempt=n+1 and the rows, SQL and
\* verification of that attempt, and has made no call after that verification.
C10_AcceptReturnsAtOnce ==
  ( /\ log.tag \in {"verified", "lowconf"}
    /\ log.verification.isValid
    /\ log.verification.confidenceScore >= 70 ) =>
     /\ pc = "c_done"
     /\ retryOutcome.defined
     /\ retryOutcome.success
     /\ retryOutcome.attempt = log.n + 1
     /\ retryOutcome.queryResults = log.rows
     /\ retryOutcome.sqlData = log.sqlData
     /\ retryOutcome.verification = log.verification
     /\ attempt = log.n
     /\ calls.synth = log.ended
     /\ calls.exec <= log.ended
     /\ calls.verify <= log.ended

\* C10 witness: the second attempt is accepted at confidence exactly 70
C10_Witness ==
  /\ pc = "c_done"
  /\ log.n = 1
  /\ log.verification.isValid
  /\ log.verification.confidenceScore = 70
  /\ retryOutcome.attempt = 2
  /\ maxRetries = 2

\* C11: when the verification of attempt n is not accepted and has shouldRetry with
\* n < maxRetries, the next step is attempt n+1, and the synthesis prompt of attempt
\* n+1 is the original prompt followed by the issuesFound, suggestions and
\* improvedSql of attempt n's verification.
C11_RetryCarriesFeedback ==
  [][ /\ ( /\ pc = "c_verify"
           /\ log'.ended = log.ended + 1
           /\ log'.tag \in {"verified", "lowconf"}
           /\ ~(log'.verification.isValid /\ log'.verification.confidenceScore >= 70)
           /\ log'.verification.shouldRetry
           /\ attempt < maxRetries ) =>
            /\ pc' = "c_synth"
            /\ attempt' = attempt + 1
      /\ ( /\ pc = "c_synth"
           /\ calls'.synth = calls.synth + 1
           /\ attempt >= 1
           /\ log.tag \in {"verified", "lowconf"}
           /\ log.n = attempt - 1 ) =>
            /\ log'.prompt.base = originalPrompt
            /\ log'.prompt.retry = attempt
            /\ log'.prompt.of = maxRetries
            /\ log.verification.issuesFound # <<>> =>
                 log'.prompt.issues = log.verification.issuesFound
            /\ log.verification.suggestions # <<>> =>
                 log'.prompt.suggestions = log.verification.suggestions
            /\ log.verification.improvedSql # NullSeq =>
                 log'.prompt.improvedSql = log.verification.improvedSql
    ]_vars

\* C11 witness: the second attempt was synthesized from a prompt that carries the
\* issue, the suggestion and the improved SQL of the first attempt's verification
C11_Witness ==
  /\ pc = "c_exec"
  /\ attempt = 1
  /\ log.n = 0
  /\ log.tag \in {"verified", "lowconf"}
  /\ log.verification.improvedSql = LlmImprovedSql
  /\ log.prompt.retry = 1
  /\ log.prompt.base = originalPrompt
  /\ log.prompt.issues = <<"llm issue">>
  /\ log.prompt.suggestions = <<"llm suggestion">>
  /\ log.prompt.improvedSql = LlmImprovedSql

\* C12: when the verification of attempt n is not accepted and either shouldRetry is
\* false or n = maxRetries, the controller returns the result of attempt n itself
\* (its rows, SQL and verification) with success=true and attempt=n+1.
C12_ExhaustedReturnsLastResult ==
  ( /\ log.tag \in {"verified", "lowconf"}
    /\ ~(log.verification.isValid /\ log.verification.confidenceScore >= 70)
    /\ (~log.verification.shouldRetry \/ log.n = maxRetries) ) =>
     /\ pc = "c_done"
     /\ attempt = log.n
     /\ retryOutcome.defined
     /\ retryOutcome.success
     /\ retryOutcome.error = Null
     /\ retryOutcome.attempt = log.n + 1
     /\ retryOutcome.maxRetries = maxRetries
     /\ retryOutcome.queryResults = log.rows
     /\ retryOutcome.sqlData = log.sqlData
     /\ retryOutcome.verification = log.verification

\* C12 witness: a first attempt that is valid at confidence 69 and asks for no retry
\* is returned although two retries remain
C12_Witness ==
  /\ pc = "c_done"
  /\ maxRetries = 2
  /\ log.n = 0
  /\ log.verification.isValid
  /\ log.verification.confidenceScore = 69
  /\ ~log.verification.shouldRetry
  /\ retryOutcome.success
  /\ retryOutcome.attempt = 1
  /\ retryOutcome.verification.confidenceScore = 69

\* C12, second case: the last attempt of the budget is rejected and asks for a retry
C12_BudgetSpentSeen ==
  /\ pc = "c_done"
  /\ maxRetries = 1
  /\ log.n = 1
  /\ ~log.verification.isValid
  /\ log.verification.shouldRetry
  /\ retryOutcome.success
  /\ retryOutcome.attempt = 2

\* The attempt with n = maxRetries raised during synthesis or execution
LastAttemptRaised ==
  /\ log.tag \in {"synth_raise", "exec_raise"}
  /\ log.n = maxRetries

\* The controller has returned a structured error result with zero rows
ReturnedErrorResult ==
  /\ pc = "c_done"
  /\ retryOutcome.defined
  /\ ~retryOutcome.success
  /\ retryOutcome.queryResults = <<>>
  /\ retryOutcome.attempt = maxRetries + 1
  /\ retryOutcome.error = log.error
  /\ ~retryOutcome.verification.isValid
  /\ retryOutcome.verification.confidenceScore = 0

\* C13 as stated: when the attempt with n = maxRetries raises during synthesis or
\* execution, the controller returns a structured error result with zero rows whose
\* sqlData.sqlQuery is the placeholder "error" SQL string.
C13_PlaceholderSqlAlways ==
  LastAttemptRaised =>
     /\ ReturnedErrorResult
     /\ retryOutcome.sqlData.sqlQuery = <<"SELECT \"Error\" as message">>

\* C13 amended: when the attempt with n = maxRetries raises during synthesis or
\* execution, the controller returns (does not raise) a structured error result with
\* zero rows; its sqlData is that of the latest synthesis that returned, and the
\* placeholder "error" SQL only when no synthesis of the call has returned.
C13_PlaceholderSqlWhenNoSynthesis ==
  LastAttemptRaised =>
     /\ ReturnedErrorResult
     /\ calls.exec = 0 =>
          retryOutcome.sqlData.sqlQuery = <<"SELECT \"Error\" as message">>
     /\ calls.exec > 0 =>
          /\ retryOutcome.sqlData = log.sqlData
          /\ retryOutcome.sqlData.sqlQuery # <<"SELECT \"Error\" as message">>
          /\ retryOutcome.sqlData.sqlQuery # NullSeq

\* C13 witness: the last execution of the budget raised and the error result carries
\* the statement the LLM wrote
C13_Witness ==
  /\ LastAttemptRaised
  /\ pc = "c_done"
  /\ maxRetries = 2
  /\ log.tag = "exec_raise"
  /\ ~retryOutcome.success
  /\ retryOutcome.sqlData.sqlQuery = LlmSql

\* C13, the placeholder's case: every synthesis of the call raised
C13_PlaceholderSeen ==
  /\ LastAttemptRaised
  /\ pc = "c_done"
  /\ maxRetries = 2
  /\ calls.synth = 3
  /\ calls.exec = 0
  /\ retryOutcome.sqlData = PlaceholderSqlData

\* C14: executeQuery never swallows a store error (when connecting or executing
\* fails it raises that error and returns no rows), and on every path connection.end()
\* has been called on the connection it opened before it returns or raises.
C14_ExecutorRaisesAndCloses ==
  (pc = "s_done" /\ harness.op = "execute") =>
     /\ harness.store \in {"connect_raise", "raise"} =>
          /\ harness.raised
          /\ harness.error # Null
          /\ harness.statement # UndefinedSeq => harness.error = harness.storeError
          /\ harness.value = <<>>
     /\ harness.raised => harness.value = <<>>
     /\ (~harness.raised) => harness.value = harness.storeRows
     /\ harness.opened = (harness.store # "connect_raise")
     /\ harness.ended = harness.opened

\* C14 witness: the statement was rejected on an open connection, the error was
\* raised and the connection was closed
C14_Witness ==
  /\ pc = "s_done"
  /\ harness.op = "execute"
  /\ harness.statement = LlmSql
  /\ harness.store = "raise"
  /\ harness.raised
  /\ harness.error = "ER_PARSE_ERROR"
  /\ harness.opened
  /\ harness.ended

\* C14, the success path: rows returned and the connection closed
C14_ClosedAfterRowsSeen ==
  /\ pc = "s_done"
  /\ harness.op = "execute"
  /\ ~harness.raised
  /\ harness.value = SampleTableRows
  /\ harness.opened
  /\ harness.ended

C16_ZeroLimitSeen ==
  /\ pc = "s_done"
  /\ harness.op = "sample"
  /\ harness.limit = 0
  /\ harness.requested = 1
  /\ harness.value.totalSampleCount = 1

\* The two requests that run together, whichever is running
RequestOne == IF harness.active = 1 THEN LocalState ELSE harness.other
RequestTwo == IF harness.active = 2 THEN LocalState ELSE harness.other

IsPrefix(s, t) == Len(s) <= Len(t) /\ SubSeq(t, 1, Len(s)) = s

\* C15: two concurrent /api/query-stream requests, interleaved arbitrarily at their
\* await points, share no mutable state: each request's ColumnAnalysis, RetryOutcome
\* and notification stream are the same as when that request runs alone against the
\* same LLM and store answers.
C15_ConcurrentRequestsIndependent ==
  harness.phase = "together" =>
     /\ IsPrefix(RequestOne.stream, harness.baseline.stream)
     /\ RequestOne.analysisPath # "none" =>
          RequestOne.columnAnalysis = harness.baseline.columnAnalysis
     /\ RequestOne.pc = "h_closed" => Observed(RequestOne) = harness.baseline
     /\ (RequestTwo.userQuery = RequestOne.userQuery /\ RequestTwo.pc = "h_closed") =>
          Observed(RequestTwo) = harness.baseline

\* C15 witness: a request that needed a retry and a request whose executions all
\* failed have run interleaved to their ends, and the first produced what it
\* produced alone
C15_Witness ==
  /\ harness.phase = "together"
  /\ harness.interleaved
  /\ RequestOne.pc = "h_closed"
  /\ RequestTwo.pc = "h_closed"
  /\ RequestOne.userQuery = <<"show", "medal">>
  /\ RequestTwo.userQuery = <<"PIE CHART">>
  /\ RequestOne.retryOutcome.attempt = 2
  /\ RequestOne.retryOutcome.success
  /\ ~RequestTwo.retryOutcome.success
  /\ RequestOne.columnAnalysis # RequestTwo.columnAnalysis
  /\ Observed(RequestOne) = harness.baseline

\* C17: every VerificationResult returned by the Result Verifier has a confidenceScore
\* that is an integer between 0 and 100 inclusive, for every LLM response (including
\* JSON objects whose confidence_score is out of range or missing).
C17_ConfidenceWithinRange ==
  (pc = "p_done" /\ harness.component = "verifier" /\ ~harness.raised) =>
     /\ harness.value.confidenceScore >= 0
     /\ harness.value.confidenceScore <= 100

\* C17: the verifier has returned the LLM's confidence_score of 150 as it came
C17_OutOfRangeSeen ==
  /\ pc = "p_done"
  /\ harness.component = "verifier"
  /\ harness.llmCalled
  /\ ~harness.raised
  /\ harness.value.confidenceScore = 150
  /\ harness.value.reasoning = "llm reasoning"

\* The column names of the active table's ColumnDescriptor set
SchemaColumnNames == Range(Names(availableColumns))

\* C18: every ColumnAnalysis produced in a request (fast path, slow path from the LLM,
\* or slow-path default after a parse failure) has requiredColumns that is a subset of
\* the column names in the active table's ColumnDescriptor set.
C18_RequiredColumnsInSchema ==
  (analysisPath # "none" /\ pc \notin {"h_analyze", "h_closed"}) =>
     Range(columnAnalysis.required_columns) \subseteq SchemaColumnNames

\* C18: the slow path has taken from the LLM a column the table does not have, with
\* the table's schema read from the store, and the request has gone on with it
C18_UnknownColumnSeen ==
  /\ analysisPath = "slow"
  /\ pc = "h_sample"
  /\ ~faults.columns
  /\ bestTable.name = "olympic_medalists"
  /\ "athlete" \in Range(columnAnalysis.required_columns)
  /\ "athlete" \notin SchemaColumnNames

\* The domain keywords that count for a table: the k-th keyword of category c occurs
\* in the query, and the table name contains the category or the table comment
\* contains the keyword
KeywordMatches(query, table) ==
  {ck \in {<<c, k>> : c \in 1..Len(tableKeywords), k \in 1..13} :
     /\ ck[2] <= Len(tableKeywords[ck[1]].keywords)
     /\ QueryIncludes(query, tableKeywords[ck[1]].keywords[ck[2]])
     /\ \/ StrIncludes(table.name, tableKeywords[ck[1]].category)
        \/ StrIncludes(table.comment, tableKeywords[ck[1]].keywords[ck[2]])}

\* The underscore-delimited fragments of the table name that occur in the query
FragmentsInQuery(query, table) ==
  {j \in 1..Len(SplitUnderscore(table.name)) :
     QueryIncludes(query, SplitUnderscore(table.name)[j])}

\* The score as stated: 20 once when any fragment occurs
StatedScore(query, table) ==
  10 * Cardinality(KeywordMatches(query, table))
    + (IF QueryIncludes(query, table.name) THEN 50 ELSE 0)
    + (IF FragmentsInQuery(query, table) # {} THEN 20 ELSE 0)

\* The score with 20 for each fragment that occurs
PerFragmentScore(query, table) ==
  10 * Cardinality(KeywordMatches(query, table))
    + (IF QueryIncludes(query, table.name) THEN 50 ELSE 0)
    + 20 * Cardinality(FragmentsInQuery(query, table))

\* The table was chosen from a list that is not empty
TableChosen == pc = "d_done" /\ harness.op = "table" /\ harness.tables # <<>>

\* The earliest table of the highest score was returned
EarliestOfHighestReturned ==
  \E i \in 1..Len(harness.tables) :
     /\ harness.best = harness.tables[i]
     /\ \A k \in 1..Len(harness.tables) :
          /\ harness.scores[k] <= harness.scores[i]
          /\ k < i => harness.scores[k] < harness.scores[i]

\* C19 as stated: detectBestTable gives each table the score 10 x (number of domain
\* keywords that appear in the query and whose category or the keyword itself is
\* contained in the table name/comment) + 50 if the query contains the exact table
\* name + 20 if the query contains any underscore-delimited fragment of the table
\* name, and returns the highest-scoring table, the earliest among equal scores.
C19_ScoreTwentyForAnyFragment ==
  TableChosen =>
     /\ \A i \in 1..Len(harness.tables) :
          harness.scores[i] = StatedScore(harness.query, harness.tables[i])
     /\ EarliestOfHighestReturned

\* C19 amended: the score is 10 x (number of domain keywords that appear in the query
\* and for which the table name contains the keyword's category or the table comment
\* contains the keyword) + 50 if the query contains the exact table name + 20 for
\* each underscore-delimited fragment of the table name that the query contains; the
\* highest-scoring table is returned, the earliest in list order among equal scores.
C19_ScoreTwentyPerFragment ==
  TableChosen =>
     /\ \A i \in 1..Len(harness.tables) :
          harness.scores[i] = PerFragmentScore(harness.query, harness.tables[i])
     /\ EarliestOfHighestReturned

\* C19 witness: the query names both fragments of sales_orders, which scores 20 for
\* each and 10 for each of two keywords and is chosen though it is listed second
C19_Witness ==
  /\ TableChosen
  /\ harness.query = <<"sales", "orders">>
  /\ Len(harness.tables) = 2
  /\ harness.tables[2].name = "sales_orders"
  /\ harness.scores[2] = 60
  /\ harness.scores[1] = 0
  /\ harness.best.name = "sales_orders"

\* C19, equal scores: no table scores and the first of the list is returned
C19_TieSeen ==
  /\ TableChosen
  /\ harness.query = <<"show">>
  /\ harness.scores = <<0, 0>>
  /\ harness.best = harness.tables[1]
  /\ harness.best.name = "sales_orders"

\* The position of a chart type in the declaration order
TypePosition(type) == CHOOSE i \in 1..Len(chartPatterns) : chartPatterns[i].type = type

\* The number of trigger phrases of the i-th type that occur in the query
PhrasesHit(query, i) ==
  Cardinality({k \in 1..Len(chartPatterns[i].patterns) :
                 QueryIncludes(query, chartPatterns[i].patterns[k])})

\* C20: detectChartTypeFromQuery returns, for every query, the first chart type in
\* declaration order (bar, column, line, pie, donut, area, scatter, histogram) that has
\* any trigger phrase occurring as a substring of the lower-cased query, however many
\* phrases of later types occur, and returns null exactly when no phrase of any type
\* occurs.
C20_FirstDeclaredTypeWins ==
  (pc = "d_done" /\ harness.op = "chart") =>
     /\ harness.chart = Null <=>
          \A i \in 1..Len(chartPatterns) : PhrasesHit(harness.query, i) = 0
     /\ harness.chart # Null =>
          /\ harness.chart \in ChartTypes
          /\ PhrasesHit(harness.query, TypePosition(harness.chart)) >= 1
          /\ \A i \in 1..(TypePosition(harness.chart) - 1) : PhrasesHit(harness.query, i) = 0
     /\ [i \in 1..Len(chartPatterns) |-> chartPatterns[i].type]
          = <<"bar", "column", "line", "pie", "donut", "area", "scatter", "histogram">>

\* C20 witness: the query holds two phrases of the pie chart, in upper case, and one
\* of the bar chart after them; bar is returned
C20_Witness ==
  /\ pc = "d_done"
  /\ harness.op = "chart"
  /\ harness.query = <<"PIE CHART", "th_priapthiap">>
  /\ PhrasesHit(harness.query, TypePosition("pie")) = 2
  /\ PhrasesHit(harness.query, TypePosition("bar")) = 1
  /\ harness.chart = "bar"

\* C20, no phrase: null is returned
C20_NullSeen ==
  /\ pc = "d_done"
  /\ harness.op = "chart"
  /\ harness.query = <<"show", "medal">>
  /\ harness.chart = Null

\* C21: generateSQLQueryWithAI never returns without a SQL statement: for every LLM
\* text (no JSON object, invalid JSON, parsed JSON object) the returned sqlQuery is a
\* defined string, and on any failure it is the template SELECT c, COUNT(*) AS count
\* FROM t GROUP BY c ORDER BY count DESC LIMIT 15, with c the first required column of
\* the ColumnAnalysis and t the active table.
C21_SynthesizerAlwaysGivesSql ==
  (pc = "p_done" /\ harness.component = "synthesizer" /\ harness.llmCalled) =>
     /\ ~harness.raised
     /\ harness.value.sqlQuery # UndefinedSeq
     /\ harness.value.sqlQuery # NullSeq
     /\ (Unparsable(harness.text) /\ harness.input.required_columns # <<>>) =>
          harness.value.sqlQuery =
            FallbackSql(harness.input.required_columns[1], bestTable.name)

\* C21: the LLM's text parsed to an object without sql_query, and the synthesizer
\* returned it with an undefined statement instead of the template
C21_UndefinedSqlSeen ==
  /\ pc = "p_done"
  /\ harness.component = "synthesizer"
  /\ harness.llmCalled
  /\ ~harness.raised
  /\ ~Unparsable(harness.text)
  /\ harness.input = GoodAnalysis
  /\ harness.value.sqlQuery = UndefinedSeq
  /\ harness.value.queryReasoning # "fallback: AI generation failed"

\* C22: when the verifier's LLM call raises, or the text it answers has no parsable
\* brace-delimited object, verifyQueryResultsWithAI does not raise and returns
\* isValid = (rows > 0), confidenceScore 70 with rows and 30 without,
\* shouldRetry = (rows = 0) and improvedSql null, whatever the number of rows.
C22_VerifierFallbackByRowCount ==
  (/\ pc = "p_done" /\ harness.component = "verifier" /\ harness.llmCalled
   /\ (harness.answer = "raise" \/ Unparsable(harness.text))) =>
     /\ ~harness.raised
     /\ harness.value.isValid = (Len(harness.input) > 0)
     /\ harness.value.confidenceScore = (IF Len(harness.input) > 0 THEN 70 ELSE 30)
     /\ harness.value.shouldRetry = (Len(harness.input) = 0)
     /\ harness.value.improvedSql = NullSeq

\* C22 witness: the LLM call raised on a result of no rows
C22_Witness ==
  /\ pc = "p_done" /\ harness.component = "verifier" /\ harness.llmCalled
  /\ harness.answer = "raise"
  /\ ~Unparsable(harness.text)
  /\ Len(harness.input) = 0
  /\ harness.value.confidenceScore = 30
  /\ harness.value.shouldRetry

\* C22 second case: the text is unparsable and the result has rows
C22_RowsSeen ==
  /\ pc = "p_done" /\ harness.component = "verifier"
  /\ harness.answer = "text" /\ Unparsable(harness.text)
  /\ Len(harness.input) > 0
  /\ harness.value.confidenceScore = 70
  /\ harness.value.isValid

\* The rule the descriptors are said to follow
FollowsCapabilityRule(col) ==
  /\ col.canBeAggregated = col.isNumeric
  /\ col.canBeGrouped = (\/ col.isText \/ col.isDate
                         \/ StrIncludes(col.name, "code")
                         \/ StrIncludes(col.name, "category"))

\* C23: every descriptor getAvailableColumns returns, from the store's metadata or
\* from the generic fallback, has canBeAggregated = isNumeric and canBeGrouped =
\* (isText or isDate or the name contains "code" or "category").
C23_DescriptorsFollowCapabilityRule ==
  \A i \in 1..Len(availableColumns) : FollowsCapabilityRule(availableColumns[i])

\* C23: the introspection raised, and the generic descriptor `id` is numeric but
\* cannot be aggregated
C23_NumericNotAggregatedSeen ==
  /\ faults.columns
  /\ pc = "h_refine"
  /\ \E i \in 1..Len(availableColumns) :
       /\ availableColumns[i].name = "id"
       /\ availableColumns[i].isNumeric
       /\ ~availableColumns[i].canBeAggregated

\* C23: the descriptors derived from the store's metadata follow the rule
C23_MetadataDescriptorsFollowRule ==
  (~faults.columns /\ pc # "h_columns") =>
     \A i \in 1..Len(availableColumns) : FollowsCapabilityRule(availableColumns[i])

\* The chart types suggested for a column, as a set
Suggested(col) == {col.suggestedChartTypes[i] : i \in 1..Len(col.suggestedChartTypes)}

\* The comment mentions "enum", "choice" or "type"
MentionsLimitedValues(comment) ==
  \/ StrIncludes(ToLowerCase(comment), "enum")
  \/ StrIncludes(ToLowerCase(comment), "choice")
  \/ StrIncludes(ToLowerCase(comment), "type")

\* The descriptors analyzeTableStructure derived from metadata in the harness
DerivedDescriptors ==
  IF pc = "s_done" /\ harness.op = "columns" /\ harness.store = "rows"
  THEN {harness.value[i] : i \in 1..Len(harness.value)} ELSE {}

\* C24: the suggested chart-type set of a descriptor derived from metadata is never
\* empty; a column with isNumeric has histogram and scatter; a text column whose
\* comment mentions enum, choice or type has pie, donut and bar.
C24_SuggestionsCoverNumericAndText ==
  \A col \in DerivedDescriptors :
     /\ Suggested(col) # {}
     /\ col.isNumeric => {"histogram", "scatter"} \subseteq Suggested(col)
     /\ (col.isText /\ MentionsLimitedValues(col.comment)) =>
          {"pie", "donut", "bar"} \subseteq Suggested(col)

\* C24: a smallint column, numeric by its descriptor, for which neither histogram nor
\* scatter is suggested
C24_NumericWithoutHistogramSeen ==
  \E col \in DerivedDescriptors :
     /\ col.type = "smallint" /\ col.isNumeric
     /\ col.name = "amount"
     /\ Suggested(col) = {"bar", "column"}

\* C24: what the code does guarantee: the set is never empty, the five types int,
\* bigint, decimal, float and double get histogram and scatter, and a varchar column
\* whose comment mentions enum, choice or type gets pie, donut and bar.
C24_SuggestionsByDeclaredType ==
  \A col \in DerivedDescriptors :
     /\ Suggested(col) # {}
     /\ col.type \in {"int", "bigint", "decimal", "float", "double"} =>
          {"histogram", "scatter"} \subseteq Suggested(col)
     /\ (col.type = "varchar" /\ MentionsLimitedValues(col.comment)) =>
          {"pie", "donut", "bar"} \subseteq Suggested(col)

\* The request is past the analysis stage
PastAnalysis == pc \in {"h_sample", "h_synth", "c_synth", "c_exec", "c_verify", "h_outcome"}

\* C25: a request has one ColumnAnalysis: the fast or the slow branch has decided it
\* before the sampling starts, no step other than the analysis stage changes it (the
\* retry controller's steps leave it as it is), and the chart type of the final
\* payload is the chart type of that ColumnAnalysis.
C25_OneAnalysisPerRequest ==
  /\ [](/\ PastAnalysis => analysisPath \in {"fast", "slow"}
        /\ payload # <<>> => payload[1].chart.config = columnAnalysis.chart_type)
  /\ [][pc # "h_analyze" => columnAnalysis' = columnAnalysis]_vars

\* C25 witness: a slow-path request whose controller returned after a retry, with the
\* LLM's chart type in the payload
C25_Witness ==
  /\ payload # <<>>
  /\ analysisPath = "slow"
  /\ retryOutcome.defined /\ retryOutcome.attempt > 1
  /\ columnAnalysis.chart_type = "line"
  /\ payload[1].chart.config = "line"

\* C25 second case: a fast-path request reaches the payload
C25_FastPathSeen ==
  /\ payload # <<>>
  /\ analysisPath = "fast"
  /\ payload[1].chart.config = columnAnalysis.chart_type

\* The attempt with n = maxRetries raised, in synthesis, execution or verification
FinalAttemptRaised ==
  /\ log.tag \in {"synth_raise", "exec_raise", "verify_raise"}
  /\ log.n = maxRetries

\* The rows of the attempts of this call that were executed and verified: those of the
\* latest attempt, and those the controller kept in lastResult before retrying
VerifiedRows ==
  (IF log.tag \in {"verified", "lowconf"} THEN {log.rows} ELSE {})
    \cup {lastResult[i].queryResults : i \in 1..Len(lastResult)}

\* C26 amended: the controller returns success=false exactly when the attempt with
\* index maxRetries raised, and it returns the outcome of its final attempt only: the
\* rows of that attempt when it was verified, and no rows when it raised, also when
\* an earlier attempt was executed and verified.
C26_ReturnsFinalAttemptOnly ==
  (pc = "c_done" /\ maxRetries >= 0) =>
     /\ ~retryOutcome.success <=> FinalAttemptRaised
     /\ log.tag \in {"verified", "lowconf"} =>
          /\ retryOutcome.success
          /\ retryOutcome.queryResults = log.rows
     /\ FinalAttemptRaised => retryOutcome.queryResults = <<>>

\* C26: the controller returns success=false exactly when the attempt with index
\* maxRetries raised, and whenever some attempt of the call was executed and verified,
\* the controller returns success=true with the rows of a verified attempt, even if
\* later attempts raised.
C26_VerifiedResultNeverLost ==
  (pc = "c_done" /\ maxRetries >= 0) =>
     /\ ~retryOutcome.success <=> FinalAttemptRaised
     /\ VerifiedRows # {} =>
          /\ retryOutcome.success
          /\ retryOutcome.queryResults \in VerifiedRows

\* C26: the first attempt returned a row and was verified at low confidence, the
\* retries raised, and the controller returned the error result with no rows
C26_VerifiedResultLostSeen ==
  /\ pc = "c_done"
  /\ maxRetries = 2
  /\ Len(lastResult) = 1
  /\ lastResult[1].success
  /\ lastResult[1].attempt = 1
  /\ Len(lastResult[1].queryResults) = 1
  /\ FinalAttemptRaised
  /\ ~retryOutcome.success
  /\ retryOutcome.queryResults = <<>>

\* The verification is the verifier's fallback, made without the LLM's verdict
FellBack(verification) == verification.reasoning = "basic check: AI verification failed"

\* The latest attempt ended with a fallback verification
LatestFellBack == log.tag = "verified" /\ FellBack(log.verification)

\* C27: when the verifier falls back: an attempt whose execution returned at least
\* one row is accepted at once (confidence 70 meets the threshold) and its rows are
\* returned; an attempt whose execution returned no row is retried while n <
\* maxRetries and is returned with success=true and zero rows at n = maxRetries, so
\* that, when no attempt raised, the controller has made exactly maxRetries+1
\* synthesis, execution and verification calls.
C27_FallbackVerdictsDriveController ==
  (LatestFellBack /\ maxRetries >= 0) =>
     /\ Len(log.rows) > 0 =>
          /\ pc = "c_done"
          /\ retryOutcome.success
          /\ retryOutcome.attempt = log.n + 1
          /\ retryOutcome.queryResults = log.rows
          /\ retryOutcome.verification.confidenceScore = 70
     /\ (Len(log.rows) = 0 /\ log.n < maxRetries) =>
          /\ pc \in {"c_synth", "c_exec", "c_verify"}
          /\ attempt = log.n + 1
          /\ ~retryOutcome.defined
     /\ (Len(log.rows) = 0 /\ log.n >= maxRetries) =>
          /\ pc = "c_done"
          /\ log.n = maxRetries
          /\ retryOutcome.success
          /\ retryOutcome.queryResults = <<>>
          /\ retryOutcome.attempt = maxRetries + 1
          /\ log.profile = "verified" =>
               /\ log.ended = maxRetries + 1
               /\ calls.synth = maxRetries + 1
               /\ calls.exec = maxRetries + 1
               /\ calls.verify = maxRetries + 1

\* C27 witness: with one retry allowed, both executions returned no row and both
\* verifications fell back; the controller returned after two attempts
C27_Witness ==
  /\ pc = "c_done"
  /\ maxRetries = 1
  /\ LatestFellBack /\ log.rows = <<>> /\ log.n = 1
  /\ Len(lastResult) = 1
  /\ FellBack(lastResult[1].verification)
  /\ lastResult[1].queryResults = <<>>
  /\ calls.exec = 2 /\ calls.verify = 2
  /\ retryOutcome.success
  /\ retryOutcome.queryResults = <<>>
  /\ retryOutcome.attempt = 2

\* C27, the other case: the first execution returned a row, the verifier fell back,
\* and the controller returned at once although two retries remained
C27_AcceptedAtOnceSeen ==
  /\ pc = "c_done"
  /\ maxRetries = 2
  /\ LatestFellBack /\ Len(log.rows) = 1 /\ log.n = 0
  /\ calls.verify = 1
  /\ retryOutcome.success
  /\ retryOutcome.attempt = 1
  /\ retryOutcome.verification.confidenceScore = 70

\* C28: whatever the refiner's LLM answers, wasImproved holds exactly when the
\* improvedPrompt returned differs from the original prompt; a JSON object without
\* improved_prompt gives the original prompt back with wasImproved = false.
C28_WasImprovedIffPromptDiffers ==
  (pc = "p_done" /\ harness.component = "refiner") =>
     /\ ~harness.raised
     /\ harness.value.wasImproved <=> (harness.value.improvedPrompt # harness.input)
     /\ (harness.answer = "text" /\ harness.text = <<"{", "}">>) =>
          /\ harness.value.improvedPrompt = harness.input
          /\ ~harness.value.wasImproved

\* C28: the LLM answered the object {} and the refiner returned the original prompt
\* with wasImproved = true
C28_UnchangedButImprovedSeen ==
  /\ pc = "p_done" /\ harness.component = "refiner"
  /\ harness.answer = "text"
  /\ harness.text = <<"{", "}">>
  /\ harness.value.improvedPrompt = harness.input
  /\ harness.value.wasImproved
  /\ harness.value.reasoning # "AI improvement failed"

\* C28: where the equivalence does hold: the call raised, the text held no parsable
\* object, or the object held a non-empty improved_prompt
C28_HoldsWithPromptOrFallback ==
  (/\ pc = "p_done" /\ harness.component = "refiner"
   /\ \/ harness.answer = "raise"
      \/ Unparsable(harness.text)
      \/ Len(RegexMatch(harness.text)) > 2) =>
     (harness.value.wasImproved <=> (harness.value.improvedPrompt # harness.input))

\* Positions of the stream's closing notifications: result, done and error
ClosingNotes == NotesOfType("result") \cup NotesOfType("done") \cup NotesOfType("error")

\* The stream ends with one `result` of progress 100 and then one `done`
EndsWithResultDone ==
  /\ Len(stream) >= 2
  /\ stream[Len(stream) - 1].type = "result"
  /\ stream[Len(stream) - 1].progress = 100
  /\ stream[Len(stream)].type = "done"
  /\ ClosingNotes = {Len(stream) - 1, Len(stream)}

\* The stream ends with one `error` and holds neither `result` nor `done`
EndsWithError ==
  /\ Len(stream) >= 1
  /\ stream[Len(stream)].type = "error"
  /\ ClosingNotes = {Len(stream)}

\* An upper bound of the steps a request has left before its stream is closed
StepsLeft ==
  LET budget == 3 * (maxRetries + 1)
      ctl == 3 * (maxRetries - attempt)
  IN CASE pc = "h_receive" -> budget + 8
       [] pc = "h_tables" -> budget + 7
       [] pc = "h_columns" -> budget + 6
       [] pc = "h_refine" -> budget + 5
       [] pc = "h_analyze" -> budget + 4
       [] pc = "h_sample" -> budget + 3
       [] pc = "h_synth" -> budget + 2
       [] pc = "c_synth" -> ctl + 4
       [] pc = "c_exec" -> ctl + 3
       [] pc = "c_verify" -> ctl + 2
       [] pc = "h_outcome" -> 1
       [] OTHER -> 0

\* C29: every stream comes to its end (a request whose stream is open can take a
\* step, and every step brings it nearer to the end), and it ends in exactly one of
\* two ways: one `result` notification of progress 100 immediately followed by one
\* `done`, or one `error` notification.  No stream holds both `result` and `error`,
\* and no notification follows `done` or `error`: an open stream holds none of the
\* three.
C29_StreamEndsOneWay ==
  /\ [](/\ pc # "h_closed" => (ClosingNotes = {} /\ ENABLED Next)
        /\ pc = "h_closed" => (EndsWithResultDone \/ EndsWithError)
        /\ ~(EndsWithResultDone /\ EndsWithError)
        /\ StepsLeft >= 0)
  /\ [][StepsLeft' < StepsLeft]_vars

\* C29 witness: a stream that went through the earlier stages and ends with `error`
C29_Witness ==
  /\ pc = "h_closed"
  /\ EndsWithError
  /\ NotesOfType("result") = {}
  /\ Len(stream) > 5

\* C29, the other ending: after a failed controller run the stream ends with result
\* and done
C29_ResultDoneSeen ==
  /\ pc = "h_closed"
  /\ EndsWithResultDone
  /\ NotesOfType("error") = {}
  /\ retryOutcome.defined /\ ~retryOutcome.success

\* C30: the sql_query of the result payload, in the chart metadata and in
\* legacy_metadata alike, is the statement of the attempt the retry controller
\* returned, not that of another synthesis call.
C30_PayloadSqlIsControllerSql ==
  (pc = "h_closed" /\ payload # <<>>) =>
     /\ retryOutcome.defined
     /\ payload[1].metadata.sql_query = retryOutcome.sqlData.sqlQuery
     /\ payload[1].legacy_metadata.sql_query = retryOutcome.sqlData.sqlQuery

\* C30: legacy_metadata carries the fallback statement of the handler's own synthesis,
\* whose LLM call raised, while the controller returned the statement the LLM wrote
C30_LegacySqlOfOtherSynthesisSeen ==
  /\ pc = "h_closed" /\ payload # <<>>
  /\ retryOutcome.defined /\ retryOutcome.success
  /\ retryOutcome.sqlData.sqlQuery = LlmSql
  /\ payload[1].metadata.sql_query = LlmSql
  /\ payload[1].legacy_metadata.sql_query = result.sqlQuery
  /\ result.sqlQuery # LlmSql
  /\ result.explanation = "Fallback query"

\* C30, the half that holds: the chart metadata carries the statement of the
\* controller's result
C30_MetadataSqlIsControllerSql ==
  (pc = "h_closed" /\ payload # <<>>) =>
     /\ retryOutcome.defined
     /\ payload[1].metadata.sql_query = retryOutcome.sqlData.sqlQuery
     /\ payload[1].metadata.sql_explanation = retryOutcome.sqlData.explanation

====
